---- MODULE Spec2Model ----
\* FloodWatchr: the flood-risk decision pipeline of the dashboard (web/src/App.tsx,
\* web/src/services/ai.ts) and of the cloud functions (functions index.ts).
\*
\* Numbers are fixed-point with one decimal: Dec(20, 0) is 20.0, Dec(100, 4) is 100.4.
\* Strings that the code inspects (trims, lower-cases, matches) are sequences of
\* one-character strings; an optional value is a sequence of length 0 or 1.
EXTENDS Integers, Sequences, FiniteSets, TLC

VARIABLES
    hInput, hLocal, hServer,    \* the heuristic under test: its input and both results
    sInput, sOutcome, sResult,  \* the callable under test: input, service outcome, result
    riskPredictions,            \* the riskPredictions collection (documents, oldest first)
    now,                        \* Date.now(), in milliseconds since the start
    \* the dashboard (App): React state and refs
    alerts,                     \* useState alerts: the current batch, in delivery order
    weatherData,                \* weatherState.data: None or the last snapshot
    processedFloodAlerts,       \* useRef: the keys already handled
    lastWaterHeightRef,         \* useRef: None or the last water height
    latestPrediction,           \* useState: None or the published FloodRiskResponse
    riskLoading,                \* useState
    riskError,                  \* useState: None or the advisory text
    summaries,                  \* useState: the visible AlertSummaryDoc list
    \* promises of the dashboard that have not settled
    riskCalls,                  \* predictFloodRisk calls: [id, key, payload]
    summaryCalls,               \* generateAlertSummary calls: [id, key, request]
    \* what has happened so far
    callSeq,                    \* how many times the dispatch effect has called out
    scoreCalls,                 \* key -> predictFloodRisk calls made for it
    summaryCount,               \* key -> generateAlertSummary calls made for it
    trendUpdates,               \* key -> writes of lastWaterHeightRef made for it
    lastRun,                    \* the last run of the dispatch effect: candidate key, result
    \* functions under test
    tInput, tTrend,             \* the trend classification: [previous, current], its result
    mRequest, mLocal, mServer,  \* the summary templates: the request and both texts
    \* browser notifications
    seenAlertsRef,              \* useRef: the ids of the alerts already looked at
    notificationPermission,     \* Notification.permission, "unsupported" without the API
    notifications,              \* id -> how many times new Notification ran for it
    delivered                   \* the ids of the alerts of all snapshots so far

hvars == <<hInput, hLocal, hServer>>
svars == <<sInput, sOutcome, sResult, riskPredictions>>
appvars == <<alerts, weatherData, processedFloodAlerts, lastWaterHeightRef,
             latestPrediction, riskLoading, riskError, summaries>>
netvars == <<riskCalls, summaryCalls>>
histvars == <<callSeq, scoreCalls, summaryCount, trendUpdates, lastRun>>
dvars == <<appvars, netvars, histvars>>
tvars == <<tInput, tTrend>>
mvars == <<mRequest, mLocal, mServer>>
nvars == <<seenAlertsRef, notificationPermission, notifications, delivered>>
bvars == <<tvars, mvars, nvars>>
vars == <<hvars, svars, now, dvars, bvars>>

\* ---------------------------------------------------------------- bounds

MaxNow == 1
MaxBatch == 2

\* ---------------------------------------------------------------- values

Dec(whole, tenths) == whole * 10 + tenths

None == <<>>
Some(v) == <<v>>
IsSome(o) == Len(o) = 1
Get(o) == o[1]

\* ---------------------------------------------------------------- strings

Whitespace == {" ", "\n", "\t"}

\* String.prototype.toLowerCase on one character
LowerChar(c) ==
    CASE c = "A" -> "a" [] c = "B" -> "b" [] c = "C" -> "c" [] c = "D" -> "d"
      [] c = "E" -> "e" [] c = "F" -> "f" [] c = "G" -> "g" [] c = "H" -> "h"
      [] c = "I" -> "i" [] c = "J" -> "j" [] c = "K" -> "k" [] c = "L" -> "l"
      [] c = "M" -> "m" [] c = "N" -> "n" [] c = "O" -> "o" [] c = "P" -> "p"
      [] c = "Q" -> "q" [] c = "R" -> "r" [] c = "S" -> "s" [] c = "T" -> "t"
      [] c = "U" -> "u" [] c = "V" -> "v" [] c = "W" -> "w" [] c = "X" -> "x"
      [] c = "Y" -> "y" [] c = "Z" -> "z" [] OTHER -> c

toLowerCase(s) == [i \in DOMAIN s |-> LowerChar(s[i])]

RECURSIVE trimStart(_)
trimStart(s) ==
    IF s # <<>> /\ Head(s) \in Whitespace THEN trimStart(Tail(s)) ELSE s

RECURSIVE trimEnd(_)
trimEnd(s) ==
    IF s # <<>> /\ s[Len(s)] \in Whitespace THEN trimEnd(SubSeq(s, 1, Len(s) - 1)) ELSE s

trim(s) == trimEnd(trimStart(s))

startsWith(s, p) == Len(s) >= Len(p) /\ SubSeq(s, 1, Len(p)) = p

endsWith(s, p) == Len(s) >= Len(p) /\ SubSeq(s, Len(s) - Len(p) + 1, Len(s)) = p

RECURSIVE join(_, _)
join(pieces, sep) ==
    IF pieces = <<>> THEN <<>>
    ELSE IF Len(pieces) = 1 THEN <<pieces[1]>>
    ELSE <<pieces[1], sep>> \o join(Tail(pieces), sep)

sStable == <<"s", "t", "a", "b", "l", "e">>
sRising == <<"r", "i", "s", "i", "n", "g">>
sFalling == <<"f", "a", "l", "l", "i", "n", "g">>
sLow == <<"L", "o", "w">>
sMedium == <<"M", "e", "d", "i", "u", "m">>
sHigh == <<"H", "i", "g", "h">>

FloodRiskLevel == {sLow, sMedium, sHigh}

\* ---------------------------------------------------------------- heuristic

\* the explanation template: <riskLevel> risk -- <pieces joined by '; '>.
explain(riskLevel, pieces) ==
    riskLevel \o <<" risk -- ">> \o join(pieces, "; ") \o <<".">>

\* web/src/App.tsx computeLocalFloodRisk: the score (lines 64-80)
LocalScoreExclusive(inputs) ==
    LET trend == toLowerCase(inputs.trend)
        s1 == IF inputs.distance_cm < Dec(20, 0) THEN 3
              ELSE IF inputs.distance_cm < Dec(50, 0) THEN 2
              ELSE IF inputs.distance_cm < Dec(80, 0) THEN 1
              ELSE 0
        s2 == IF inputs.rainfall_mm > Dec(30, 0) THEN s1 + 3
              ELSE IF inputs.rainfall_mm > Dec(15, 0) THEN s1 + 2
              ELSE IF inputs.rainfall_mm > Dec(5, 0) THEN s1 + 1
              ELSE s1
        s3 == IF inputs.humidity >= Dec(90, 0) THEN s2 + 1 ELSE s2
        s4 == IF trend = sRising THEN s3 + 2 ELSE IF trend = sFalling THEN s3 - 1 ELSE s3
    IN  IF inputs.temp <= Dec(2, 0) THEN s4 + 1 ELSE s4

localScore(inputs) ==
    LET trend == toLowerCase(inputs.trend)
        s1 == IF inputs.distance_cm <= Dec(20, 0) THEN 3
              ELSE IF inputs.distance_cm <= Dec(50, 0) THEN 2
              ELSE IF inputs.distance_cm <= Dec(80, 0) THEN 1
              ELSE 0
        s2 == IF inputs.rainfall_mm >= Dec(30, 0) THEN s1 + 3
              ELSE IF inputs.rainfall_mm >= Dec(15, 0) THEN s1 + 2
              ELSE IF inputs.rainfall_mm >= Dec(5, 0) THEN s1 + 1
              ELSE s1
        s3 == IF inputs.humidity >= Dec(90, 0) THEN s2 + 1 ELSE s2
        s4 == IF trend = sRising THEN s3 + 2 ELSE IF trend = sFalling THEN s3 - 1 ELSE s3
    IN  IF inputs.temp <= Dec(2, 0) THEN s4 + 1 ELSE s4

\* web/src/App.tsx computeLocalFloodRisk: the classification (line 82)
LocalLevelStrict(score) ==
    IF score > 6 THEN sHigh ELSE IF score >= 3 THEN sMedium ELSE sLow

localLevel(score) ==
    IF score >= 6 THEN sHigh ELSE IF score >= 3 THEN sMedium ELSE sLow

\* web/src/App.tsx computeLocalFloodRisk, called when Date.now() is t
LocalRiskByTheClock(inputs, t) ==
    [riskLevel |-> localLevel(localScore(inputs) + t),
     explanation |-> explain(localLevel(localScore(inputs) + t), <<"Recent rainfall is heavy">>),
     predictionId |-> <<"local-", t>>]

computeLocalFloodRisk(inputs, t) ==
    LET trend == toLowerCase(inputs.trend)
        riskLevel == localLevel(localScore(inputs))
        pieces ==
            (IF inputs.distance_cm <= Dec(50, 0)
                THEN <<"Water level is close to the sensor">> ELSE <<>>)
            \o (IF inputs.rainfall_mm >= Dec(15, 0)
                THEN <<"Recent rainfall is heavy">> ELSE <<>>)
            \o (IF trend = sRising THEN <<"Rising water trend detected">> ELSE <<>>)
            \o (IF inputs.humidity >= Dec(90, 0) THEN <<"Humidity remains high">> ELSE <<>>)
        explanationPieces ==
            IF Len(pieces) = 0 THEN <<"Sensor readings remain within safe ranges">>
            ELSE pieces
    IN  [riskLevel |-> riskLevel,
         explanation |-> explain(riskLevel, explanationPieces),
         predictionId |-> <<"local-", t>>]

\* functions index.ts heuristicFloodRisk: the score (lines 245-259)
heuristicScore(inputs) ==
    LET s1 == IF inputs.distance_cm <= Dec(20, 0) THEN 3
              ELSE IF inputs.distance_cm <= Dec(50, 0) THEN 2
              ELSE IF inputs.distance_cm <= Dec(80, 0) THEN 1
              ELSE 0
        s2 == IF inputs.rainfall_mm >= Dec(30, 0) THEN s1 + 3
              ELSE IF inputs.rainfall_mm >= Dec(15, 0) THEN s1 + 2
              ELSE IF inputs.rainfall_mm >= Dec(5, 0) THEN s1 + 1
              ELSE s1
        s3 == IF inputs.humidity >= Dec(90, 0) THEN s2 + 1 ELSE s2
        s4 == IF toLowerCase(inputs.trend) = sRising THEN s3 + 2
              ELSE IF toLowerCase(inputs.trend) = sFalling THEN s3 - 1
              ELSE s3
    IN  IF inputs.temp <= Dec(2, 0) THEN s4 + 1 ELSE s4

\* functions index.ts heuristicFloodRisk: the classification (line 261)
heuristicLevel(score) ==
    IF score >= 6 THEN sHigh ELSE IF score >= 3 THEN sMedium ELSE sLow

\* functions index.ts heuristicFloodRisk
HeuristicHumidityFirst(inputs) ==
    LET riskLevel == heuristicLevel(heuristicScore(inputs))
        fragments ==
            (IF inputs.humidity >= Dec(90, 0)
                THEN <<"Humidity is high, supporting persistent moisture">> ELSE <<>>)
            \o (IF inputs.distance_cm <= Dec(50, 0)
                THEN <<"Water level is close to the sensor">> ELSE <<>>)
            \o (IF inputs.rainfall_mm >= Dec(15, 0)
                THEN <<"Heavy rainfall detected in the last hour">> ELSE <<>>)
            \o (IF toLowerCase(inputs.trend) = sRising
                THEN <<"Recent trend indicates rising water">> ELSE <<>>)
        explanationFragments ==
            IF Len(fragments) = 0 THEN <<"Sensor readings stay within safe thresholds">>
            ELSE fragments
    IN  [riskLevel |-> riskLevel,
         explanation |-> explain(riskLevel, explanationFragments)]

heuristicFloodRisk(inputs) ==
    LET riskLevel == heuristicLevel(heuristicScore(inputs))
        fragments ==
            (IF inputs.distance_cm <= Dec(50, 0)
                THEN <<"Water level is close to the sensor">> ELSE <<>>)
            \o (IF inputs.rainfall_mm >= Dec(15, 0)
                THEN <<"Heavy rainfall detected in the last hour">> ELSE <<>>)
            \o (IF toLowerCase(inputs.trend) = sRising
                THEN <<"Recent trend indicates rising water">> ELSE <<>>)
            \o (IF inputs.humidity >= Dec(90, 0)
                THEN <<"Humidity is high, supporting persistent moisture">> ELSE <<>>)
        explanationFragments ==
            IF Len(fragments) = 0 THEN <<"Sensor readings stay within safe thresholds">>
            ELSE fragments
    IN  [riskLevel |-> riskLevel,
         explanation |-> explain(riskLevel, explanationFragments)]

\* ---------------------------------------------------------------- remote inference

\* A JSON document is one token of the response text, named by a string starting
\* with "{"; JsonValue is what JSON.parse makes of it. A field is
\* [type, s]: a string with its characters, a number, null or undefined (absent).
StrField(chars) == [type |-> "string", s |-> chars]
NumField == [type |-> "number", s |-> <<>>]
Undefined == [type |-> "undefined", s |-> <<>>]

JsonObject(level, expl) == [type |-> "object", riskLevel |-> level, explanation |-> expl]
JsonNull == [type |-> "null", riskLevel |-> Undefined, explanation |-> Undefined]

sOk == <<"o", "k">>

JsonTokens ==
    {"{High}", "{ High }", "{Medium,no explanation}", "{Low}", "{Severe}", "{high}",
     "{no riskLevel}", "{riskLevel:3}", "{High,explanation:3}", "{riskLevel:''}", "null"}

JsonValue(tok) ==
    CASE tok = "{High}" -> JsonObject(StrField(sHigh), StrField(sOk))
      [] tok = "{ High }" ->
            JsonObject(StrField(<<" ">> \o sHigh \o <<"\n">>), StrField(<<" ">> \o sOk))
      [] tok = "{Medium,no explanation}" -> JsonObject(StrField(sMedium), Undefined)
      [] tok = "{Low}" -> JsonObject(StrField(sLow), StrField(sOk))
      [] tok = "{Severe}" ->
            JsonObject(StrField(<<"S", "e", "v", "e", "r", "e">>), StrField(sOk))
      [] tok = "{high}" -> JsonObject(StrField(toLowerCase(sHigh)), StrField(sOk))
      [] tok = "{no riskLevel}" -> JsonObject(Undefined, StrField(sOk))
      [] tok = "{riskLevel:3}" -> JsonObject(NumField, StrField(sOk))
      [] tok = "{High,explanation:3}" -> JsonObject(StrField(sHigh), NumField)
      [] tok = "{riskLevel:''}" -> JsonObject(StrField(<<>>), StrField(sOk))
      [] tok = "null" -> JsonNull

\* JSON.parse(text): the value when the text is one JSON document, possibly
\* surrounded by whitespace; None when it throws a SyntaxError
parseTrimmed(t) ==
    IF Len(t) = 1 /\ t[1] \in JsonTokens THEN Some(JsonValue(t[1])) ELSE None

JsonParse(text) == parseTrimmed(trim(text))

\* the fence of a markdown code block: three backtick characters
BackTick == "BT"
sFence == <<BackTick, BackTick, BackTick>>

\* sanitizeJsonBlock, line 160, first replace: a leading fence with the json tag
\* (any letter case) and the whitespace after it are removed
stripOpenFence(s) ==
    IF Len(s) >= 7 /\ SubSeq(s, 1, 3) = sFence
        /\ toLowerCase(SubSeq(s, 4, 7)) = <<"j", "s", "o", "n">>
    THEN trimStart(SubSeq(s, 8, Len(s)))
    ELSE s

\* sanitizeJsonBlock, line 160, second replace: a trailing fence is removed
stripCloseFence(s) ==
    IF endsWith(s, sFence) THEN SubSeq(s, 1, Len(s) - 3) ELSE s

\* sanitizeJsonBlock, lines 159-162, on the trimmed text
sanitizeTrimmed(trimmed) ==
    IF startsWith(trimmed, sFence) /\ endsWith(trimmed, sFence)
    THEN trim(stripCloseFence(stripOpenFence(trimmed)))
    ELSE trimmed

\* functions index.ts sanitizeJsonBlock
sanitizeJsonBlock(raw) ==
    IF raw = None \/ Get(raw) = <<>> THEN <<>> ELSE sanitizeTrimmed(trim(Get(raw)))

\* What the inference service does with one request: the key is not configured,
\* fetch throws, the status is not OK, or a 200 whose first part carries `text`
\* with None when candidates/content/parts/text is missing.
GeminiBodies == {<<tok>> : tok \in JsonTokens} \cup {<<"g", "a", "r", "b", "a", "g", "e">>, <<>>}

GeminiTexts ==
    UNION {
        { body,
          <<" ", "\n">> \o body \o <<"\n">>,
          sFence \o <<"j", "s", "o", "n", "\n">> \o body \o <<"\n">> \o sFence,
          sFence \o <<"J", "S", "O", "N", " ">> \o body \o sFence \o <<"\n">>,
          sFence \o <<"\n">> \o body \o <<"\n">> \o sFence,
          sFence \o <<"j", "s", "o", "n", "\n">> \o body
        } : body \in GeminiBodies }

GeminiOutcomes ==
    {[kind |-> k, text |-> None] : k \in {"nokey", "throw", "notok", "ok"}}
        \cup {[kind |-> "ok", text |-> Some(t)] : t \in GeminiTexts}

\* functions index.ts callGemini, line 322: the level the service gave is an allowed one
AcceptAnyLevel(riskLevel) == TRUE
isAllowedLevel(riskLevel) == ~(riskLevel # sLow /\ riskLevel # sMedium /\ riskLevel # sHigh)

\* what callGemini returns: null, or a result; with the requests it made to the service
GeminiNull(n) == [result |-> None, fetches |-> n, threw |-> FALSE]

\* functions index.ts callGemini, lines 321-326, on the parsed object p
AcceptUnchecked(p, riskLevel) ==
    [result |-> Some([riskLevel |-> riskLevel, explanation |-> sOk]),
     fetches |-> 1, threw |-> FALSE]

acceptParsed(p, riskLevel) ==
    IF ~isAllowedLevel(riskLevel) THEN GeminiNull(1)
    ELSE IF p.explanation.type = "number" THEN GeminiNull(1)     \* TypeError, caught
    ELSE [result |-> Some([
              riskLevel |-> riskLevel,
              explanation |->
                  IF p.explanation.type = "string" THEN trim(p.explanation.s)
                  ELSE <<"AI indicates ">> \o riskLevel \o <<" flood risk.">>]),
          fetches |-> 1, threw |-> FALSE]

\* functions index.ts callGemini, lines 319-330, on what JSON.parse gave
readParsed(parsed) ==
    IF parsed = None THEN GeminiNull(1)                          \* SyntaxError, caught
    ELSE IF Get(parsed).type = "null" THEN GeminiNull(1)         \* TypeError, caught
    ELSE IF Get(parsed).riskLevel.type = "number" THEN GeminiNull(1) \* TypeError, caught
    ELSE acceptParsed(Get(parsed),
                      IF Get(parsed).riskLevel.type = "string"
                      THEN trim(Get(parsed).riskLevel.s) ELSE <<>>)

\* functions index.ts callGemini, lines 314-330, on the sanitized text
readText(text) ==
    IF text = <<>> THEN GeminiNull(1) ELSE readParsed(JsonParse(text))

\* functions index.ts callGemini: [result, fetches, threw], result None for null
RetryingGemini(inputs, outcome) ==
    IF outcome.kind = "ok" THEN readText(sanitizeJsonBlock(outcome.text)) ELSE GeminiNull(2)

callGemini(inputs, outcome) ==
    IF outcome.kind = "nokey" THEN GeminiNull(0)
    ELSE IF outcome.kind = "throw" THEN [result |-> None, fetches |-> 1, threw |-> TRUE]
    ELSE IF outcome.kind = "notok" THEN GeminiNull(1)
    ELSE readText(sanitizeJsonBlock(outcome.text))

\* functions index.ts predictFloodRisk, lines 414-427, on what callGemini gave
scoreWith(inputs, called, fallback, docId) ==
    [response |-> [riskLevel |-> IF called.result # None THEN Get(called.result).riskLevel
                                 ELSE fallback.riskLevel,
                   explanation |-> IF called.result # None THEN Get(called.result).explanation
                                   ELSE fallback.explanation,
                   predictionId |-> <<"doc-", docId>>],
     doc |-> [riskLevel |-> IF called.result # None THEN Get(called.result).riskLevel
                            ELSE fallback.riskLevel,
              explanation |-> IF called.result # None THEN Get(called.result).explanation
                              ELSE fallback.explanation,
              rawInputs |-> inputs,
              source |-> IF called.result # None THEN "gemini" ELSE "heuristic"],
     fetches |-> called.fetches]

\* functions index.ts predictFloodRisk (the callable): with the service answering
\* `outcome` and the store assigning `docId`: the response, the document added
\* to riskPredictions and the number of requests made to the service
predictFloodRiskFn(inputs, outcome, docId) ==
    scoreWith(inputs, callGemini(inputs, outcome), heuristicFloodRisk(inputs), docId)

\* ---------------------------------------------------------------- the heuristic, applied

Trends ==
    {sStable, sRising, sFalling, <<"R", "I", "S", "I", "N", "G">>,
     <<"F", "a", "l", "l", "i", "n", "g">>, <<"s", "u", "r", "g", "e">>}

RiskInputs ==
    [distance_cm : {Dec(15, 0), Dec(20, 0), Dec(20, 1), Dec(50, 0), Dec(50, 1),
                    Dec(80, 0), Dec(80, 1), Dec(81, 0), Dec(90, 0)},
     rainfall_mm : {0, Dec(4, 9), Dec(5, 0), Dec(14, 9), Dec(15, 0), Dec(29, 9),
                    Dec(30, 0), Dec(35, 0)},
     humidity : {Dec(40, 0), Dec(89, 9), Dec(90, 0), Dec(95, 0)},
     temp : {Dec(-5, 0), Dec(1, 0), Dec(2, 0), Dec(2, 1), Dec(20, 0)},
     trend : Trends]

IdleHeuristic == hInput = None /\ hLocal = None /\ hServer = None
\* the dashboard as mounted: useState / useRef initial values, nothing in flight
IdleDashboard ==
    /\ alerts = <<>>
    /\ weatherData = None
    /\ processedFloodAlerts = {}
    /\ lastWaterHeightRef = None
    /\ latestPrediction = None
    /\ riskLoading = FALSE
    /\ riskError = None
    /\ summaries = <<>>
    /\ riskCalls = {}
    /\ summaryCalls = {}
    /\ callSeq = 0
    /\ scoreCalls = <<>>
    /\ summaryCount = <<>>
    /\ trendUpdates = <<>>
    /\ lastRun = None
IdleScorer == sInput = None /\ sOutcome = None /\ sResult = None /\ riskPredictions = <<>>
IdleTrend == tInput = None /\ tTrend = None
IdleSummary == mRequest = None /\ mLocal = None /\ mServer = None
\* a first visit: nothing seen, the browser has not asked about notifications yet
IdleNotifier ==
    /\ seenAlertsRef = {}
    /\ notificationPermission = "default"
    /\ notifications = <<>>
    /\ delivered = {}

InitHeuristic ==
    /\ \E inputs \in RiskInputs : hInput = Some(inputs)
    /\ hLocal = None
    /\ hServer = None
    /\ now = 0
    /\ IdleScorer
    /\ IdleDashboard
    /\ IdleTrend
    /\ IdleSummary
    /\ IdleNotifier

\* time passes
Tick ==
    /\ now < MaxNow
    /\ now' = now + 1

\* the dashboard computes its local estimate for the input
RunLocal ==
    /\ hInput # None
    /\ hLocal' = Some(computeLocalFloodRisk(Get(hInput), now))
    /\ UNCHANGED <<bvars, hInput, hServer, svars, now, dvars>>

\* the cloud function computes its heuristic for the input
RunHeuristic ==
    /\ hInput # None
    /\ hServer' = Some(heuristicFloodRisk(Get(hInput)))
    /\ UNCHANGED <<bvars, hInput, hLocal, svars, now, dvars>>

HeuristicTick == Tick /\ UNCHANGED <<bvars, hvars, svars, dvars>>

NextHeuristic == RunLocal \/ RunHeuristic \/ HeuristicTick

SpecHeuristic == InitHeuristic /\ [][NextHeuristic]_vars

\* ---------------------------------------------------------------- the callable, applied

ScorerInputs ==
    {inputs \in RiskInputs :
        /\ inputs.distance_cm \in {Dec(15, 0), Dec(50, 1), Dec(90, 0)}
        /\ inputs.rainfall_mm \in {0, Dec(35, 0)}
        /\ inputs.humidity = Dec(95, 0)
        /\ inputs.temp = Dec(20, 0)
        /\ inputs.trend \in {sStable, sRising}}

InitScorer ==
    /\ \E inputs \in ScorerInputs : sInput = Some(inputs)
    /\ \E outcome \in GeminiOutcomes : sOutcome = Some(outcome)
    /\ sResult = None
    /\ riskPredictions = <<>>
    /\ now = 0
    /\ IdleHeuristic
    /\ IdleDashboard
    /\ IdleTrend
    /\ IdleSummary
    /\ IdleNotifier

\* the predictFloodRisk callable handles the request and the add() succeeds
ServePrediction ==
    /\ sInput # None /\ sResult = None
    /\ LET r == predictFloodRiskFn(Get(sInput), Get(sOutcome), Len(riskPredictions) + 1)
       IN  /\ sResult' = Some([status |-> "ok", response |-> Some(r.response),
                               fetches |-> r.fetches])
           /\ riskPredictions' = Append(riskPredictions, r.doc)
    /\ UNCHANGED <<bvars, sInput, sOutcome, hvars, now, dvars>>

\* the predictFloodRisk callable handles the request and the add() rejects:
\* the callable throws and nothing is stored
ServePredictionStoreDown ==
    /\ sInput # None /\ sResult = None
    /\ LET r == predictFloodRiskFn(Get(sInput), Get(sOutcome), Len(riskPredictions) + 1)
       IN  sResult' = Some([status |-> "error", response |-> None, fetches |-> r.fetches])
    /\ UNCHANGED <<bvars, sInput, sOutcome, riskPredictions, hvars, now, dvars>>

NextScorer == ServePrediction \/ ServePredictionStoreDown

SpecScorer == InitScorer /\ [][NextScorer]_vars

\* ---------------------------------------------------------------- alert documents

\* A field of an alert document as typeof / Number.isFinite see it.
Num(n) == [type |-> "number", n |-> n]
Absent == [type |-> "undefined", n |-> 0]
Text == [type |-> "string", n |-> 0]
NotANumber == [type |-> "nan", n |-> 0]

FieldNames ==
    {"value", "waterHeight", "height_cm", "water_level_cm",
     "distance", "distance_cm", "sensor_gap_cm"}

NoFields == [f \in FieldNames |-> Absent]

sFlood == <<"f", "l", "o", "o", "d">>
sCritical == <<"c", "r", "i", "t", "i", "c", "a", "l">>
sWarning == <<"w", "a", "r", "n", "i", "n", "g">>
sMediumLevel == <<"m", "e", "d", "i", "u", "m">>
sHighLevel == <<"h", "i", "g", "h">>
sInfo == <<"i", "n", "f", "o">>
sUnknown == <<"u", "n", "k", "n", "o", "w", "n">>
sSensor == <<"s", "e", "n", "s", "o", "r">>

\* a flood sensor; the gap is under the alias distance_cm
DocFlood ==
    [id |-> "a1", sensor |-> Some(sFlood), level |-> Some(sCritical),
     timestamp |-> Some(180000),
     num |-> ("value" :> Num(Dec(100, 0))) @@ ("distance_cm" :> Num(Dec(15, 0))) @@ NoFields]

\* a gas sensor that carries a numeric value and distance
DocGas ==
    [id |-> "a2", sensor |-> Some(<<"g", "a", "s">>),
     level |-> Some(<<"W", "A", "R", "N", "I", "N", "G">>), timestamp |-> Some(60000),
     num |-> ("value" :> Num(Dec(100, 6))) @@ ("distance" :> Num(Dec(60, 0))) @@ NoFields]

\* a motion sensor: its value is a string, its distance is NaN with a numeric
\* sensor_gap_cm, it has no level, and its timestamp field is a plain number
\* (None: neither a Timestamp nor a Date)
DocMotion ==
    [id |-> "a3", sensor |-> Some(<<"m", "o", "t", "i", "o", "n">>), level |-> None,
     timestamp |-> None,
     num |-> ("value" :> Text) @@ ("distance" :> NotANumber)
             @@ ("sensor_gap_cm" :> Num(Dec(40, 0))) @@ NoFields]

AlertDocs == {DocFlood, DocGas, DocMotion}

\* firebase.ts line 47, orderBy timestamp desc: Timestamps newest first, then
\* the fields of a lesser type
sortsBefore(a, b) ==
    a.timestamp # None /\ (b.timestamp = None \/ Get(a.timestamp) > Get(b.timestamp))

\* firebase.ts subscribeAlerts: what the subscription can deliver, up to MaxBatch
\* documents in the order of the query
BatchesOf(docs) ==
    {b \in UNION {[1..n -> docs] : n \in 0..MaxBatch} :
        \A i, j \in DOMAIN b : i < j => sortsBefore(b[i], b[j])}

Batches == BatchesOf(AlertDocs)

\* what the weather provider can deliver (rain1h may be missing)
WeatherSnapshots ==
    {[rain1h |-> None, rain3h |-> Some(Dec(35, 0)), humidity |-> Dec(95, 0),
      temperature |-> Dec(1, 0)]}

\* ---------------------------------------------------------------- the dispatch effect

\* String.prototype.includes
includes(s, sub) ==
    \E i \in 1..(Len(s) - Len(sub) + 1) : SubSeq(s, i, i + Len(sub) - 1) = sub

\* Array.prototype.find, given the indexes whose elements satisfy the
\* predicate: the first of them, None when there is none
find(seq, matching) ==
    IF matching = {} THEN None
    ELSE Some(seq[CHOOSE i \in matching : \A j \in matching : i <= j])

isFloodSensor(alert) ==
    alert.sensor # None /\ includes(toLowerCase(Get(alert.sensor)), sFlood)

typeofNumber(field) == field.type \in {"number", "nan"}

hasValueAndDistance(alert) ==
    typeofNumber(alert.num["distance"]) /\ typeofNumber(alert.num["value"])

\* a ?? b on optional values
orElse(a, b) == IF a # None THEN a ELSE b

\* App.tsx lines 543-546: None for an empty batch
AllAlerts(batch) == batch
NumericBeforeFlood(batch) ==
    orElse(find(batch, {i \in DOMAIN batch : hasValueAndDistance(batch[i])}),
           orElse(find(batch, {i \in DOMAIN batch : isFloodSensor(batch[i])}),
                  IF Len(batch) > 0 THEN Some(batch[1]) ELSE None))

latestFloodCandidate(batch) ==
    orElse(find(batch, {i \in DOMAIN batch : isFloodSensor(batch[i])}),
           orElse(find(batch, {i \in DOMAIN batch : hasValueAndDistance(batch[i])}),
                  IF Len(batch) > 0 THEN Some(batch[1]) ELSE None))

\* App.tsx lines 552-560: the key, computed when Date.now() is t
alertKey(alert, t) ==
    IF alert.id # ""
    THEN [id |-> alert.id, sensor |-> <<>>, ts |-> 0]
    ELSE [id |-> "", sensor |-> orElse(alert.sensor, Some(sSensor))[1],
          ts |-> orElse(alert.timestamp, Some(t))[1]]

\* App.tsx pickNumericField: None for null
RECURSIVE pickNumericField(_, _)
pickNumericField(document, keys) ==
    IF keys = <<>> THEN None
    ELSE IF document.num[Head(keys)].type = "number" THEN Some(document.num[Head(keys)].n)
    ELSE pickNumericField(document, Tail(keys))

heightKeys == <<"value", "waterHeight", "height_cm", "water_level_cm">>
distanceKeys == <<"distance", "distance_cm", "sensor_gap_cm">>

\* App.tsx lines 581-585
TrendAtDeadband(last, waterHeight) ==
    IF last = None THEN sStable
    ELSE IF waterHeight >= Get(last) + Dec(0, 5) THEN sRising
    ELSE IF waterHeight <= Get(last) - Dec(0, 5) THEN sFalling
    ELSE sStable

trendOf(last, waterHeight) ==
    IF last = None THEN sStable
    ELSE IF waterHeight > Get(last) + Dec(0, 5) THEN sRising
    ELSE IF waterHeight < Get(last) - Dec(0, 5) THEN sFalling
    ELSE sStable

\* App.tsx line 577
rainfallOf(w) == IF w = None THEN 0 ELSE orElse(Get(w).rain1h, orElse(Get(w).rain3h, Some(0)))[1]

\* App.tsx lines 577-594
riskPayloadOf(last, waterHeight, distance, w) ==
    [distance_cm |-> distance,
     rainfall_mm |-> rainfallOf(w),
     humidity |-> IF w = None THEN 0 ELSE Get(w).humidity,
     temp |-> IF w = None THEN 0 ELSE Get(w).temperature,
     trend |-> trendOf(last, waterHeight)]

\* App.tsx lines 614-615
levelToNumber(level) ==
    IF toLowerCase(level) = sCritical \/ toLowerCase(level) = sHighLevel THEN 3
    ELSE IF toLowerCase(level) = sMediumLevel \/ toLowerCase(level) = sWarning THEN 2
    ELSE 1

\* Array.prototype.slice(0, n)
SliceWhole(seq, n) == seq

slice(seq, n) == SubSeq(seq, 1, IF Len(seq) < n THEN Len(seq) ELSE n)

\* App.tsx lines 617-627
lastAlertsPayloadOf(batch, t) ==
    [i \in DOMAIN slice(batch, 5) |->
        [sensor |-> orElse(batch[i].sensor, Some(sUnknown))[1],
         level |-> orElse(batch[i].level, Some(sInfo))[1],
         value |-> IF typeofNumber(batch[i].num["value"])
                   THEN Some(batch[i].num["value"]) ELSE None,
         timestamp |-> orElse(batch[i].timestamp, Some(t))[1]]]

\* App.tsx lines 629-634
summaryRequestOf(alert, batch, waterHeight, distance, w, t) ==
    [currentLevel |-> levelToNumber(orElse(alert.level, Some(<<>>))[1]),
     waterHeight |-> waterHeight,
     distance |-> distance,
     rainfall |-> rainfallOf(w),
     lastAlerts |-> lastAlertsPayloadOf(batch, t)]

\* one more for key k in a count per key
Bump(f, k) == IF k \in DOMAIN f THEN [f EXCEPT ![k] = @ + 1] ELSE (k :> 1) @@ f
Count(f, k) == IF k \in DOMAIN f THEN f[k] ELSE 0

\* the state the dispatch effect reads and writes
EffectState ==
    [processed |-> processedFloodAlerts, lastHeight |-> lastWaterHeightRef,
     riskLoading |-> riskLoading, riskError |-> riskError,
     riskCalls |-> riskCalls, summaryCalls |-> summaryCalls,
     callSeq |-> callSeq, scoreCalls |-> scoreCalls, summaryCount |-> summaryCount,
     trendUpdates |-> trendUpdates, lastRun |-> lastRun]

SetEffectState(st) ==
    /\ processedFloodAlerts' = st.processed
    /\ lastWaterHeightRef' = st.lastHeight
    /\ riskLoading' = st.riskLoading
    /\ riskError' = st.riskError
    /\ riskCalls' = st.riskCalls
    /\ summaryCalls' = st.summaryCalls
    /\ callSeq' = st.callSeq
    /\ scoreCalls' = st.scoreCalls
    /\ summaryCount' = st.summaryCount
    /\ trendUpdates' = st.trendUpdates
    /\ lastRun' = st.lastRun

Ran(key, result) == Some([key |-> key, result |-> result])

\* App.tsx lines 575-656: the key is marked, the trend state written, both calls made
DispatchForgetful(st, alert, key, batch, w, waterHeight, distance, t) ==
    [st EXCEPT !.processed = {key}, !.lastRun = Ran(Some(key), "dispatched")]

DispatchKeepingHeight(st, alert, key, batch, w, waterHeight, distance, t) ==
    [st EXCEPT
        !.processed = @ \cup {key},
        !.riskLoading = TRUE,
        !.riskError = None,
        !.riskCalls = @ \cup {[id |-> st.callSeq + 1, key |-> key,
                               payload |-> riskPayloadOf(st.lastHeight, waterHeight, distance, w)]},
        !.summaryCalls = @ \cup {[id |-> st.callSeq + 1, key |-> key,
                                  request |-> summaryRequestOf(alert, batch, waterHeight,
                                                               distance, w, t)]},
        !.callSeq = @ + 1,
        !.scoreCalls = Bump(@, key),
        !.summaryCount = Bump(@, key),
        !.lastRun = Ran(Some(key), "dispatched")]

DispatchUnmarked(st, alert, key, batch, w, waterHeight, distance, t) ==
    [st EXCEPT
        !.lastHeight = Some(waterHeight),
        !.riskLoading = TRUE,
        !.riskError = None,
        !.riskCalls = @ \cup {[id |-> st.callSeq + 1, key |-> key,
                               payload |-> riskPayloadOf(st.lastHeight, waterHeight, distance, w)]},
        !.summaryCalls = @ \cup {[id |-> st.callSeq + 1, key |-> key,
                                  request |-> summaryRequestOf(alert, batch, waterHeight,
                                                               distance, w, t)]},
        !.callSeq = @ + 1,
        !.scoreCalls = Bump(@, key),
        !.summaryCount = Bump(@, key),
        !.trendUpdates = Bump(@, key),
        !.lastRun = Ran(Some(key), "dispatched")]

dispatchAlert(st, alert, key, batch, w, waterHeight, distance, t) ==
    [st EXCEPT
        !.processed = @ \cup {key},
        !.lastHeight = Some(waterHeight),
        !.riskLoading = TRUE,
        !.riskError = None,
        !.riskCalls = @ \cup {[id |-> st.callSeq + 1, key |-> key,
                               payload |-> riskPayloadOf(st.lastHeight, waterHeight, distance, w)]},
        !.summaryCalls = @ \cup {[id |-> st.callSeq + 1, key |-> key,
                                  request |-> summaryRequestOf(alert, batch, waterHeight,
                                                               distance, w, t)]},
        !.callSeq = @ + 1,
        !.scoreCalls = Bump(@, key),
        !.summaryCount = Bump(@, key),
        !.trendUpdates = Bump(@, key),
        !.lastRun = Ran(Some(key), "dispatched")]

\* App.tsx lines 566-575
MalformedUnmarked(st, alert, key, batch, w, waterHeight, distance, t) ==
    IF waterHeight = None \/ distance = None
    THEN [st EXCEPT !.lastRun = Ran(Some(key), "malformed")]
    ELSE dispatchAlert(st, alert, key, batch, w, Get(waterHeight), Get(distance), t)

extractAndDispatch(st, alert, key, batch, w, waterHeight, distance, t) ==
    IF waterHeight = None \/ distance = None
    THEN [st EXCEPT !.processed = @ \cup {key}, !.lastRun = Ran(Some(key), "malformed")]
    ELSE dispatchAlert(st, alert, key, batch, w, Get(waterHeight), Get(distance), t)

\* App.tsx lines 552-575, for the candidate
ProcessAlways(st, alert, key, batch, w, t) ==
    extractAndDispatch(st, alert, key, batch, w,
                       pickNumericField(alert, heightKeys),
                       pickNumericField(alert, distanceKeys), t)

SkipTrackingTrend(st, alert, key, batch, w, t) ==
    IF key \in st.processed
    THEN [st EXCEPT !.lastHeight = pickNumericField(alert, heightKeys),
                    !.lastRun = Ran(Some(key), "skipped")]
    ELSE extractAndDispatch(st, alert, key, batch, w,
                            pickNumericField(alert, heightKeys),
                            pickNumericField(alert, distanceKeys), t)

processCandidate(st, alert, key, batch, w, t) ==
    IF key \in st.processed
    THEN [st EXCEPT !.lastRun = Ran(Some(key), "skipped")]
    ELSE extractAndDispatch(st, alert, key, batch, w,
                            pickNumericField(alert, heightKeys),
                            pickNumericField(alert, distanceKeys), t)

\* the effect body over the candidates it was given (the code gives it at most one)
RECURSIVE processEach(_, _, _, _, _)
processEach(st, candidates, batch, w, t) ==
    IF candidates = <<>> THEN st
    ELSE processEach(processCandidate(st, Head(candidates), alertKey(Head(candidates), t),
                                      batch, w, t),
                     Tail(candidates), batch, w, t)

\* App.tsx lines 542-657: the effect of [alerts, weatherState.data]
dispatchEffect(st, batch, w, t) ==
    processEach([st EXCEPT !.lastRun = Ran(None, "empty")],
                latestFloodCandidate(batch), batch, w, t)

\* ---------------------------------------------------------------- summaries

\* Date.prototype.toLocaleTimeString with hour and minute: the minute of the day
timeOfDay(ms) == (ms \div 60000) % 1440

\* App.tsx levelDescriptions
levelDescriptions(level) ==
    CASE level = 1 -> "Conditions look safe right now."
      [] level = 2 -> "Conditions are shifting, please stay alert."
      [] level = 3 -> "Immediate action recommended -- conditions are dangerous."

\* `${n}` of a number kept in tenths: its digits, with the tenths when there are any
numberText(n) ==
    LET a == IF n < 0 THEN -n ELSE n
    IN  (IF n < 0 THEN <<"-">> ELSE <<>>)
        \o <<ToString(a \div 10)>>
        \o (IF a % 10 = 0 THEN <<>> ELSE <<".", ToString(a % 10)>>)

\* toLocaleTimeString([], {hour: '2-digit', minute: '2-digit'}) of a minute of the day
clockText(minute) ==
    (IF minute \div 60 < 10 THEN <<"0">> ELSE <<>>) \o <<ToString(minute \div 60), ":">>
    \o (IF minute % 60 < 10 THEN <<"0">> ELSE <<>>) \o <<ToString(minute % 60)>>

\* App.tsx buildLocalSummary, lines 104-108: the line of one alert
alertLine(alert) ==
    <<"  - ">> \o alert.sensor \o <<" (">> \o alert.level \o <<") · ">>
    \o (IF alert.value = None THEN <<"n/a">>
        ELSE IF Get(alert.value).type = "nan" THEN <<"NaN">>
        ELSE numberText(Get(alert.value).n))
    \o <<" at ">> \o clockText(timeOfDay(alert.timestamp))

\* functions index.ts fallbackSummary, line 394: the entry of one alert
alertEntry(alert) == alert.sensor \o <<" (">> \o alert.level \o <<")">>

\* texts.join(sep) of texts that are sequences of pieces
RECURSIVE joinTexts(_, _)
joinTexts(texts, sep) ==
    IF texts = <<>> THEN <<>>
    ELSE IF Len(texts) = 1 THEN texts[1]
    ELSE texts[1] \o <<sep>> \o joinTexts(Tail(texts), sep)

\* App.tsx buildLocalSummary: the text, as the pieces of its template
buildLocalSummary(payload) ==
    LET headline == levelDescriptions(payload.currentLevel)
        firstAlerts == slice(payload.lastAlerts, 3)
        alertLines ==
            joinTexts([i \in DOMAIN firstAlerts |-> alertLine(firstAlerts[i])], "\n")
        alertsSection == IF Len(alertLines) > 0
                         THEN <<"- Recent alerts:", "\n">> \o alertLines
                         ELSE <<"- Recent alerts: none reported">>
    IN  <<"**", headline, "**", "\n", "\n", "- Water height: ">>
        \o numberText(payload.waterHeight) \o <<" cm (sensor gap ">>
        \o numberText(payload.distance) \o <<" cm)", "\n", "- Rainfall last hour: ">>
        \o numberText(payload.rainfall) \o <<" mm", "\n">>
        \o alertsSection
        \o <<"\n", "\n", "_Local assistant estimate while cloud AI reconnects._">>

\* functions index.ts fallbackSummary, lines 387-391
fallbackHeadline(level) ==
    CASE level = 1 -> "Situation stable, continue monitoring."
      [] level = 2 -> "Moderate flood indicators, prepare mitigation steps."
      [] level = 3 -> "Critical flood indicators, enact emergency response now."

\* functions index.ts fallbackSummary
fallbackSummary(request) ==
    LET headline == fallbackHeadline(request.currentLevel)
        listed == slice(request.lastAlerts, 3)
        alertsText == joinTexts([i \in DOMAIN listed |-> alertEntry(listed[i])], ", ")
    IN  <<"**", headline, "**", "\n", "\n", "- Water height: ">>
        \o numberText(request.waterHeight) \o <<" cm at sensor distance ">>
        \o numberText(request.distance) \o <<" cm", "\n", "- Rainfall last hour: ">>
        \o numberText(request.rainfall) \o <<" mm", "\n", "- Recent alerts: ">>
        \o (IF alertsText # <<>> THEN alertsText ELSE <<"No recent alerts">>)

\* What the inference service does with one summary request: as GeminiOutcomes,
\* with the text parts of the first candidate (a part may lack its text).
sHeadline == <<"*", "*", "F", "l", "o", "o", "d", "*", "*">>

SummaryOutcomes ==
    {[kind |-> k, parts |-> None] : k \in {"nokey", "throw", "notok", "ok"}}
        \cup {[kind |-> "ok", parts |-> Some(ps)] :
                ps \in {<<>>, <<None>>, <<Some(<<" ", "\n">>)>>,
                        <<Some(sHeadline \o <<"\n">>)>>,
                        <<Some(sHeadline), None, Some(<<"-", " ", "g", "o">>)>>}}

\* parts.map(part => part.text?.trim() ?? "").join("\n")
RECURSIVE joinParts(_)
joinParts(parts) ==
    IF parts = <<>> THEN <<>>
    ELSE (IF Head(parts) = None THEN <<>> ELSE trim(Get(Head(parts))))
         \o (IF Len(parts) > 1 THEN <<"\n">> ELSE <<>>)
         \o joinParts(Tail(parts))

\* functions index.ts callGeminiSummary, lines 381-382, on the joined, trimmed text
nonEmptySummary(summary) ==
    [result |-> IF Len(summary) > 0 THEN Some(summary) ELSE None,
     fetches |-> 1, threw |-> FALSE]

\* functions index.ts callGeminiSummary
callGeminiSummary(request, outcome) ==
    IF outcome.kind = "nokey" THEN GeminiNull(0)
    ELSE IF outcome.kind = "throw" THEN [result |-> None, fetches |-> 1, threw |-> TRUE]
    ELSE IF outcome.kind = "notok" THEN GeminiNull(1)
    ELSE IF outcome.parts = None THEN GeminiNull(1)
    ELSE nonEmptySummary(trim(joinParts(Get(outcome.parts))))

\* functions index.ts generateAlertSummary, lines 445-462, on what callGeminiSummary gave
summarizeWith(payload, called, docId) ==
    [response |-> [summaryId |-> <<"doc-", docId>>],
     doc |-> [summary |-> IF called.result # None
                          THEN [text |-> called.result, template |-> None]
                          ELSE [text |-> None, template |-> Some(fallbackSummary(payload))],
              payload |-> payload,
              source |-> IF called.result # None THEN "gemini" ELSE "fallback"],
     fetches |-> called.fetches]

\* functions index.ts generateAlertSummary (the callable)
generateAlertSummaryFn(payload, outcome, docId) ==
    summarizeWith(payload, callGeminiSummary(payload, outcome), docId)

\* ---------------------------------------------------------------- the dashboard

\* the service outcomes tried against the dashboard's calls
ServiceOutcomes ==
    {o \in GeminiOutcomes :
        \/ o.kind = "throw"
        \/ o.text \in {Some(<<"{Low}">>), Some(<<"{Severe}">>)}}

InitDashboard ==
    /\ IdleDashboard
    /\ now = 0
    /\ IdleHeuristic
    /\ IdleScorer
    /\ IdleTrend
    /\ IdleSummary
    /\ IdleNotifier

\* App.tsx lines 192-199: one alert of a snapshot, given what is seen and fired so far
NotifyOrForget(st, alert, permission) ==
    IF alert.id \in st.seen THEN st
    ELSE IF permission = "granted"
         THEN [seen |-> st.seen \cup {alert.id}, fired |-> Bump(st.fired, alert.id)]
         ELSE st

notifyAlert(st, alert, permission) ==
    IF alert.id \in st.seen THEN st
    ELSE [seen |-> st.seen \cup {alert.id},
          fired |-> IF permission = "granted" THEN Bump(st.fired, alert.id) ELSE st.fired]

\* App.tsx line 191: all.forEach
RECURSIVE notifyEach(_, _, _)
notifyEach(st, all, permission) ==
    IF all = <<>> THEN st
    ELSE notifyEach(notifyAlert(st, Head(all), permission), Tail(all), permission)

\* App.tsx lines 186-201 and 542-657: the alerts subscription delivers a batch;
\* setAlerts and the notifications of its new alerts, then the dispatch effect
\* runs on it
AlertsSnapshot(batch) ==
    /\ alerts' = batch
    /\ seenAlertsRef' = notifyEach([seen |-> seenAlertsRef, fired |-> notifications],
                                   batch, notificationPermission).seen
    /\ notifications' = notifyEach([seen |-> seenAlertsRef, fired |-> notifications],
                                   batch, notificationPermission).fired
    /\ delivered' = delivered \cup {batch[i].id : i \in DOMAIN batch}
    /\ SetEffectState(dispatchEffect(EffectState, batch, weatherData, now))
    /\ UNCHANGED <<tvars, mvars, notificationPermission, weatherData, latestPrediction,
                   summaries, now, hvars, svars>>

\* App.tsx fetchWeather, line 311, and lines 542-657: a fetch succeeds and
\* weatherState.data becomes the new snapshot object; the dispatch effect runs
\* again. No path sets data back to null once a snapshot has arrived.
WeatherRefresh(w) ==
    /\ weatherData' = Some(w)
    /\ SetEffectState(dispatchEffect(EffectState, alerts, Some(w), now))
    /\ UNCHANGED <<bvars, alerts, latestPrediction, summaries, now, hvars, svars>>

\* App.tsx lines 600-603 and 610-612, with the callable's answer r
thenPrediction(r) ==
    /\ latestPrediction' = Some(r.response)
    /\ riskError' = None
    /\ riskLoading' = FALSE

\* the predictFloodRisk callable answers call c (the service having done
\* `outcome`) and the promise resolves
ResolveLatestOnly(c, outcome) ==
    /\ c \in riskCalls
    /\ riskCalls' = riskCalls \ {c}
    /\ IF c.id = callSeq
       THEN thenPrediction(predictFloodRiskFn(c.payload, outcome, c.id))
       ELSE riskLoading' = FALSE /\ UNCHANGED <<latestPrediction, riskError>>
    /\ UNCHANGED <<bvars, alerts, weatherData, processedFloodAlerts, lastWaterHeightRef, summaries,
                   summaryCalls, histvars, now, hvars, svars>>

ResolveRisk(c, outcome) ==
    /\ c \in riskCalls
    /\ riskCalls' = riskCalls \ {c}
    /\ thenPrediction(predictFloodRiskFn(c.payload, outcome, c.id))
    /\ UNCHANGED <<bvars, alerts, weatherData, processedFloodAlerts, lastWaterHeightRef, summaries,
                   summaryCalls, histvars, now, hvars, svars>>

sUnavailable == "Cloud AI temporarily unavailable -- showing local estimate."

\* App.tsx lines 604-612: the promise of call c rejects (the request failed or
\* timed out, or the callable threw)
RejectRiskSilently(c) ==
    /\ c \in riskCalls
    /\ riskCalls' = riskCalls \ {c}
    /\ riskError' = Some(sUnavailable)
    /\ riskLoading' = FALSE
    /\ UNCHANGED <<bvars, alerts, weatherData, processedFloodAlerts, lastWaterHeightRef, summaries,
                   latestPrediction, summaryCalls, histvars, now, hvars, svars>>

RejectRisk(c) ==
    /\ c \in riskCalls
    /\ riskCalls' = riskCalls \ {c}
    /\ latestPrediction' = Some(computeLocalFloodRisk(c.payload, now))
    /\ riskError' = Some(sUnavailable)
    /\ riskLoading' = FALSE
    /\ UNCHANGED <<bvars, alerts, weatherData, processedFloodAlerts, lastWaterHeightRef, summaries,
                   summaryCalls, histvars, now, hvars, svars>>

\* the generateAlertSummary callable answers call c and the promise resolves;
\* App.tsx lines 629-635 attach no handler to the resolution
ResolveSummary(c) ==
    /\ c \in summaryCalls
    /\ summaryCalls' = summaryCalls \ {c}
    /\ UNCHANGED <<bvars, appvars, riskCalls, histvars, now, hvars, svars>>

\* App.tsx lines 649-654
AddLocalAlways(prev, fallback) == <<fallback>> \o prev

addLocalSummary(prev, fallback) ==
    IF \E i \in DOMAIN prev : prev[i].summary = fallback.summary
    THEN prev
    ELSE <<fallback>> \o prev

\* App.tsx lines 635-656: the promise of call c rejects
RejectSummary(c) ==
    /\ c \in summaryCalls
    /\ summaryCalls' = summaryCalls \ {c}
    /\ summaries' = addLocalSummary(summaries,
                                    [id |-> <<"local-", now>>,
                                     summary |-> buildLocalSummary(c.request),
                                     timestamp |-> now])
    /\ UNCHANGED <<bvars, alerts, weatherData, processedFloodAlerts, lastWaterHeightRef,
                   latestPrediction, riskLoading, riskError, riskCalls, histvars, now,
                   hvars, svars>>

\* Date.now() reads `now`, which stands still while the dashboard is observed
Next ==
    \/ \E batch \in Batches : AlertsSnapshot(batch)
    \/ \E w \in WeatherSnapshots : WeatherRefresh(w)
    \/ \E c \in riskCalls, outcome \in ServiceOutcomes : ResolveRisk(c, outcome)
    \/ \E c \in riskCalls : RejectRisk(c)
    \/ \E c \in summaryCalls : ResolveSummary(c)
    \/ \E c \in summaryCalls : RejectSummary(c)

Spec == InitDashboard /\ [][Next]_vars

\* a scoring promise settles
SettleRisk ==
    \E c \in riskCalls :
        \/ RejectRisk(c)
        \/ \E outcome \in ServiceOutcomes : ResolveRisk(c, outcome)

\* The dashboard built without an OpenWeather key (App.tsx lines 156-158: weather
\* stays disabled and its data null), with every scoring promise settling in
\* the end: the callable runs under timeoutSeconds 60 (functions index.ts line
\* 401) and the client rejects a call that has not answered by its deadline.
NextNoWeather ==
    \/ \E batch \in Batches : AlertsSnapshot(batch)
    \/ SettleRisk
    \/ \E c \in summaryCalls : ResolveSummary(c)
    \/ \E c \in summaryCalls : RejectSummary(c)

FairSpec == InitDashboard /\ [][NextNoWeather]_vars /\ WF_vars(SettleRisk)

\* ---------------------------------------------------------------- notifications

\* a visit: the browser may lack the Notification API, and may remember an
\* earlier answer to the permission prompt
InitNotifier ==
    /\ IdleDashboard
    /\ now = 0
    /\ IdleHeuristic
    /\ IdleScorer
    /\ IdleTrend
    /\ IdleSummary
    /\ seenAlertsRef = {}
    /\ notificationPermission \in {"unsupported", "default", "granted", "denied"}
    /\ notifications = <<>>
    /\ delivered = {}

\* App.tsx handleEnableNotifications, lines 696-699: the browser asks the user,
\* who allows or blocks (a dismissed prompt changes nothing); an earlier answer
\* stands without a prompt
EnableNotifications(answer) ==
    /\ notificationPermission = "default"
    /\ notificationPermission' = answer
    /\ UNCHANGED <<tvars, mvars, seenAlertsRef, notifications, delivered, hvars, svars, now,
                   dvars>>

NextNotifier ==
    \/ \E batch \in Batches : AlertsSnapshot(batch)
    \/ \E answer \in {"granted", "denied"} : EnableNotifications(answer)

SpecNotifier == InitNotifier /\ [][NextNotifier]_vars

\* ---------------------------------------------------------------- the selection, applied

\* the newest record: a thermometer with a numeric value and no distance
DocTemp ==
    [id |-> "a4", sensor |-> Some(<<"t", "e", "m", "p">>), level |-> Some(sInfo),
     timestamp |-> Some(240000),
     num |-> ("value" :> Num(Dec(22, 5))) @@ NoFields]

\* a flood sensor tagged in capitals, older than the gas record
DocFloodOld ==
    [id |-> "a5", sensor |-> Some(<<"R", "i", "v", "e", "r", "-", "F", "L", "O", "O", "D">>),
     level |-> Some(sWarning), timestamp |-> Some(30000),
     num |-> ("value" :> Num(Dec(99, 0))) @@ ("distance" :> Num(Dec(20, 0))) @@ NoFields]

SelectDocs == AlertDocs \cup {DocTemp, DocFloodOld}

MaxCalls == 2

\* the subscription delivers batches of these records until the effect has
\* called out MaxCalls times; no call settles meanwhile
NextSelect ==
    \E batch \in BatchesOf(SelectDocs) : callSeq < MaxCalls /\ AlertsSnapshot(batch)

SpecSelect == InitDashboard /\ [][NextSelect]_vars

\* ---------------------------------------------------------------- the key, applied

\* a flood record whose data carry an empty id field (the spread of
\* firebase.ts line 52 lets it replace doc.id) and a timestamp field that is
\* neither a Timestamp nor a Date
DocAnon ==
    [id |-> "", sensor |-> Some(sFlood), level |-> Some(sWarning), timestamp |-> None,
     num |-> ("value" :> Num(Dec(100, 4))) @@ ("distance" :> Num(Dec(15, 0))) @@ NoFields]

KeyDocs == {DocFlood, DocGas, DocAnon}

KeyTick == Tick /\ UNCHANGED <<bvars, hvars, svars, dvars>>

\* the subscription delivers batches of these records while time passes, until
\* the effect has called out MaxCalls times; no call settles meanwhile
NextKey ==
    \/ \E batch \in BatchesOf(KeyDocs) : callSeq < MaxCalls /\ AlertsSnapshot(batch)
    \/ KeyTick

SpecKey == InitDashboard /\ [][NextKey]_vars

\* ---------------------------------------------------------------- the weather, applied

\* the same records and clock, and the weather fetch succeeding (App.tsx line
\* 311), until the effect has called out MaxCalls times
NextRefresh ==
    \/ \E batch \in BatchesOf(KeyDocs) : callSeq < MaxCalls /\ AlertsSnapshot(batch)
    \/ \E w \in WeatherSnapshots : callSeq < MaxCalls /\ WeatherRefresh(w)
    \/ KeyTick

SpecRefresh == InitDashboard /\ [][NextRefresh]_vars

\* ---------------------------------------------------------------- the summaries listener

\* services/ai.ts line 82: limit(20)
SummaryLimit == 20

\* String.prototype.startsWith('local-') on an id
isLocalEntry(item) == item.id[1] = "local-"

\* App.tsx lines 236-238: the local entries whose id no remote document has
RECURSIVE retainedLocal(_, _)
retainedLocal(prev, remoteIds) ==
    IF prev = <<>> THEN <<>>
    ELSE (IF isLocalEntry(Head(prev)) /\ Head(prev).id \notin remoteIds
          THEN <<Head(prev)>> ELSE <<>>)
         \o retainedLocal(Tail(prev), remoteIds)

\* App.tsx lines 235-240: the updater of the listener callback
mergeSummaries(prev, docs) ==
    retainedLocal(prev, {docs[i].id : i \in DOMAIN docs}) \o docs

\* a document of the alertSummaries collection as handleSnapshot maps it
RemoteSummary(n, text) == [id |-> <<"doc-", n>>, summary |-> text, timestamp |-> 0]

\* the newest n documents of the collection
RecentWindow(n) == [i \in 1..n |-> RemoteSummary(i, <<"Summary ", ToString(i)>>)]

\* services/ai.ts listenAlertSummaries: what the listener can deliver while
\* `visible` is shown: nothing, one document, a full window, or a document with
\* the text of an entry on screen. The documents are those the callable adds
\* (functions index.ts line 456), under ids Firestore generates.
SummarySnapshots(visible) ==
    {<<>>, RecentWindow(1), RecentWindow(SummaryLimit)}
        \cup {<<RemoteSummary(SummaryLimit + 1, visible[i].summary)>> : i \in DOMAIN visible}

\* App.tsx lines 232-242: the summaries listener delivers a snapshot
SummariesSnapshot(docs) ==
    /\ summaries' = mergeSummaries(summaries, docs)
    /\ UNCHANGED <<bvars, alerts, weatherData, processedFloodAlerts, lastWaterHeightRef,
                   latestPrediction, riskLoading, riskError, netvars, histvars, now,
                   hvars, svars>>

SummaryDocs == {DocFlood, DocAnon}

\* alerts arrive while time passes, until the effect has called out MaxCalls
\* times; summary calls settle and the summaries listener delivers snapshots
NextListener ==
    \/ \E batch \in BatchesOf(SummaryDocs) : callSeq < MaxCalls /\ AlertsSnapshot(batch)
    \/ KeyTick
    \/ \E c \in summaryCalls : ResolveSummary(c)
    \/ \E c \in summaryCalls : RejectSummary(c)
    \/ \E docs \in SummarySnapshots(summaries) : SummariesSnapshot(docs)

SpecListener == InitDashboard /\ [][NextListener]_vars

\* ---------------------------------------------------------------- the trend, applied

TrendHeights ==
    {Dec(99, 4), Dec(99, 5), Dec(99, 6), Dec(100, 0), Dec(100, 4), Dec(100, 5),
     Dec(100, 6), Dec(101, 0)}

InitTrend ==
    /\ \E previous \in {None} \cup {Some(h) : h \in TrendHeights}, current \in TrendHeights :
            tInput = Some([previous |-> previous, current |-> current])
    /\ tTrend = None
    /\ now = 0
    /\ IdleHeuristic
    /\ IdleScorer
    /\ IdleDashboard
    /\ IdleSummary
    /\ IdleNotifier

\* App.tsx lines 581-585: the effect classifies the reading against
\* lastWaterHeightRef.current
ClassifyTrend ==
    /\ tInput # None
    /\ tTrend' = Some(trendOf(Get(tInput).previous, Get(tInput).current))
    /\ UNCHANGED <<tInput, mvars, nvars, hvars, svars, now, dvars>>

NextTrend == ClassifyTrend

SpecTrend == InitTrend /\ [][NextTrend]_vars

\* ---------------------------------------------------------------- the summaries, applied

MaxAlerts == 4

\* entries of lastAlerts as App.tsx lines 617-627 build them
AlertEntries ==
    {[sensor |-> sFlood, level |-> sCritical, value |-> Some(Num(Dec(100, 0))),
      timestamp |-> 180000],
     [sensor |-> <<"g", "a", "s">>, level |-> <<"W", "A", "R", "N", "I", "N", "G">>,
      value |-> Some(Num(Dec(100, 6))), timestamp |-> 60000],
     [sensor |-> sUnknown, level |-> sInfo, value |-> None, timestamp |-> 0]}

AlertLists == UNION {[1..n -> AlertEntries] : n \in 0..MaxAlerts}

SummaryRequests ==
    [currentLevel : {1, 2, 3},
     waterHeight : {Dec(100, 0), Dec(100, 6)},
     distance : {Dec(15, 0)},
     rainfall : {0, Dec(12, 5)},
     lastAlerts : AlertLists]

InitSummary ==
    /\ \E request \in SummaryRequests : mRequest = Some(request)
    /\ mLocal = None
    /\ mServer = None
    /\ now = 0
    /\ IdleHeuristic
    /\ IdleScorer
    /\ IdleDashboard
    /\ IdleTrend
    /\ IdleNotifier

\* App.tsx line 647: the dashboard writes its own summary of the request
RunLocalSummary ==
    /\ mRequest # None
    /\ mLocal' = Some(buildLocalSummary(Get(mRequest)))
    /\ UNCHANGED <<mRequest, mServer, tvars, nvars, hvars, svars, now, dvars>>

\* functions index.ts line 446: the callable writes its fallback for the request
RunFallbackSummary ==
    /\ mRequest # None
    /\ mServer' = Some(fallbackSummary(Get(mRequest)))
    /\ UNCHANGED <<mRequest, mLocal, tvars, nvars, hvars, svars, now, dvars>>

NextSummary == RunLocalSummary \/ RunFallbackSummary

SpecSummary == InitSummary /\ [][NextSummary]_vars

\* ================================================================ claims

\* ---------------------------------------------------------------- C1
\* the levels callGemini can return, over everything the service can do (its
\* result does not depend on the input)
RemoteLevels ==
    {Get(callGemini(CHOOSE inputs \in RiskInputs : TRUE, outcome).result).riskLevel :
        outcome \in {o \in GeminiOutcomes :
                        callGemini(CHOOSE inputs \in RiskInputs : TRUE, o).result # None}}

\* C1: whatever the service did, the riskLevel of the prediction the dashboard
\* shows is one of Low, Medium, High, and so is every level a call in flight
\* can be answered with: the service's when callGemini accepts it, the
\* heuristic's for the call's input, the local estimate's when the call is rejected.
C1_RiskLevelAllowed ==
    /\ latestPrediction # None => Get(latestPrediction).riskLevel \in FloodRiskLevel
    /\ RemoteLevels \subseteq FloodRiskLevel
    /\ \A c \in riskCalls :
            /\ heuristicFloodRisk(c.payload).riskLevel \in FloodRiskLevel
            /\ computeLocalFloodRisk(c.payload, now).riskLevel \in FloodRiskLevel

\* the dashboard shows a prediction that the callable returned
C1_Witness ==
    /\ latestPrediction # None
    /\ Get(latestPrediction).predictionId[1] = "doc-"
    /\ Get(latestPrediction).riskLevel = sHigh

\* ---------------------------------------------------------------- C2
Resolvable(doc) ==
    pickNumericField(doc, heightKeys) # None /\ pickNumericField(doc, distanceKeys) # None

\* the runs of the dispatch effect so far that had this key as their candidate
\* made these calls
CallsFor(key) == <<Count(scoreCalls, key), Count(summaryCount, key)>>

\* C2: an alert with an identifier and a resolvable height and distance has had
\* exactly one scoring call and one summary call once it has been the candidate,
\* however often it has been selected since, and none before.
C2_DedupIdempotence ==
    \A doc \in AlertDocs :
        Resolvable(doc) =>
            CallsFor(alertKey(doc, now)) =
                IF alertKey(doc, now) \in processedFloodAlerts THEN <<1, 1>> ELSE <<0, 0>>

\* the effect has just run on a candidate it had dispatched before
C2_Witness ==
    /\ lastRun = Ran(Some(alertKey(DocFlood, now)), "skipped")
    /\ CallsFor(alertKey(DocFlood, now)) = <<1, 1>>

\* ---------------------------------------------------------------- C3
\* C3: no step removes a key from the processed set, and no step makes a scoring
\* call, a summary call or a trend update for a key that is in it.
C3_ProcessedOnlyGrows ==
    [][/\ processedFloodAlerts \subseteq processedFloodAlerts'
       /\ \A key \in processedFloodAlerts :
            /\ Count(scoreCalls', key) = Count(scoreCalls, key)
            /\ Count(summaryCount', key) = Count(summaryCount, key)
            /\ Count(trendUpdates', key) = Count(trendUpdates, key)]_vars

\* two keys are processed and the effect has met one of them again
C3_Witness ==
    /\ Cardinality(processedFloodAlerts) >= 2
    /\ lastRun # None
    /\ Get(lastRun).result = "skipped"

\* ---------------------------------------------------------------- C4
\* The object the service's text parsed to in callGemini, if JSON.parse succeeded
\* and gave an object.
ParsedObject(outcome) ==
    LET parsed == JsonParse(sanitizeJsonBlock(outcome.text))
    IN  IF outcome.kind = "ok" /\ parsed # None /\ Get(parsed).type = "object"
        THEN parsed ELSE None

\* the callable answered with the heuristic's level and explanation for its
\* input and stored them with source "heuristic"
FellBackToHeuristic ==
    LET h == heuristicFloodRisk(Get(sInput))
        r == Get(Get(sResult).response)
        d == riskPredictions[Len(riskPredictions)]
    IN  /\ r.riskLevel = h.riskLevel /\ r.explanation = h.explanation
        /\ d.riskLevel = h.riskLevel /\ d.explanation = h.explanation
        /\ d.source = "heuristic"

Answered == sResult # None /\ Get(sResult).status = "ok"

\* C4 as stated: whenever the text parsed to an object whose riskLevel is not
\* exactly "Low", "Medium" or "High", the callable returns the heuristic's
\* riskLevel and explanation and records source "heuristic".
C4_AsStated ==
    (/\ Answered
     /\ ParsedObject(Get(sOutcome)) # None
     /\ LET f == Get(ParsedObject(Get(sOutcome))).riskLevel
        IN  f.type # "string" \/ f.s \notin FloodRiskLevel)
    => FellBackToHeuristic

\* C4 amended: whenever the text parsed to an object whose riskLevel, with
\* surrounding whitespace trimmed, is not exactly "Low", "Medium" or "High"
\* (or is no string), the callable returns the heuristic's riskLevel and
\* explanation and records source "heuristic".
C4_RejectedFallsBack ==
    (/\ Answered
     /\ ParsedObject(Get(sOutcome)) # None
     /\ LET f == Get(ParsedObject(Get(sOutcome))).riskLevel
        IN  f.type # "string" \/ trim(f.s) \notin FloodRiskLevel)
    => FellBackToHeuristic

\* a "Severe" answer was handled
C4_Witness ==
    /\ Answered
    /\ ParsedObject(Get(sOutcome)) # None
    /\ Get(ParsedObject(Get(sOutcome))).riskLevel = StrField(<<"S", "e", "v", "e", "r", "e">>)
    /\ Get(Get(sResult).response).riskLevel \in FloodRiskLevel

\* ---------------------------------------------------------------- C5
\* what the dashboard shows when call c has settled: the callable's answer for
\* the call's input with no advisory, or the local estimate for it with the advisory
PublishedFor(c, prediction, error) ==
    \/ /\ error = None
       /\ \E outcome \in ServiceOutcomes :
            prediction = Some(predictFloodRiskFn(c.payload, outcome, c.id).response)
    \/ /\ error = Some(sUnavailable)
       /\ prediction = Some(computeLocalFloodRisk(c.payload, now))

\* C5: while scoring calls are in flight or riskLoading is set, the dashboard
\* goes on to a state with no call in flight and riskLoading false; the step
\* that takes a call out of flight publishes a prediction for that call's input
\* (the callable's, or the local estimate with the advisory) and ends
\* riskLoading; and no step leaves the advisory shown without a prediction.
C5_EveryCallPublishes ==
    /\ (riskCalls # {} \/ riskLoading) ~> (riskCalls = {} /\ ~riskLoading)
    /\ [][/\ \A c \in riskCalls \ riskCalls' :
               PublishedFor(c, latestPrediction', riskError') /\ ~riskLoading'
          /\ riskError' # None => latestPrediction' # None]_vars

\* a scoring call was rejected: its local estimate is shown with the advisory
C5_Witness ==
    /\ riskError = Some(sUnavailable)
    /\ latestPrediction # None
    /\ Get(latestPrediction).predictionId[1] = "local-"
    /\ ~riskLoading
    /\ riskCalls = {}

\* ---------------------------------------------------------------- C6
\* the callable's answer to a scoring call made at most one request to the
\* service, and without a result from it the answer is the heuristic's
OneScoringAttempt(payload, r) ==
    /\ r.fetches <= 1
    /\ r.doc.source = "heuristic" =>
            /\ r.response.riskLevel = heuristicFloodRisk(payload).riskLevel
            /\ r.response.explanation = heuristicFloodRisk(payload).explanation

\* the numbers of requests callGemini can make, over everything the service
\* can do
RemoteFetches ==
    {callGemini(CHOOSE inputs \in RiskInputs : TRUE, outcome).fetches :
        outcome \in GeminiOutcomes}

OneSummaryAttempt(request, r) ==
    /\ r.fetches <= 1
    /\ r.doc.source = "fallback" => r.doc.summary.template = Some(fallbackSummary(request))

C7_OneCandidatePerRun ==
    [][/\ Cardinality(processedFloodAlerts' \ processedFloodAlerts) <= 1
       /\ Cardinality(riskCalls' \ riskCalls) <= 1
       /\ Cardinality(summaryCalls' \ summaryCalls) <= 1
       /\ callSeq' <= callSeq + 1]_vars

\* the effect has run on a batch of two records that were both new, and
\* dispatched one
C7_Witness ==
    /\ alerts = <<DocFlood, DocGas>>
    /\ processedFloodAlerts = {alertKey(DocFlood, now)}
    /\ lastRun = Ran(Some(alertKey(DocFlood, now)), "dispatched")
    /\ callSeq = 1

\* ---------------------------------------------------------------- C8
CallsInFlightFor(key) ==
    {c \in riskCalls : c.key = key} \cup {c \in summaryCalls : c.key = key}

\* C8: a record without a resolvable height or distance never has a call made
\* for it; once the effect has met it as its candidate its key is processed, and
\* every later run that meets it skips it.
C8_MalformedMarkedAndSkipped ==
    /\ [](\A doc \in AlertDocs :
            ~Resolvable(doc) =>
                /\ CallsFor(alertKey(doc, now)) = <<0, 0>>
                /\ CallsInFlightFor(alertKey(doc, now)) = {}
                /\ (lastRun # None /\ Get(lastRun).key = Some(alertKey(doc, now)))
                        => alertKey(doc, now) \in processedFloodAlerts)
    /\ [][\A doc \in AlertDocs :
            (/\ ~Resolvable(doc)
             /\ alertKey(doc, now) \in processedFloodAlerts
             /\ lastRun' # lastRun
             /\ Get(lastRun').key = Some(alertKey(doc, now)))
                => Get(lastRun').result = "skipped"]_vars

\* the effect has met the malformed record again and skipped it
C8_Witness ==
    /\ lastRun = Ran(Some(alertKey(DocMotion, now)), "skipped")
    /\ alertKey(DocMotion, now) \in processedFloodAlerts
    /\ CallsFor(alertKey(DocMotion, now)) = <<0, 0>>

\* ---------------------------------------------------------------- C11
\* the classification the claim describes
RefTrend(previous, current) ==
    IF previous = None THEN sStable
    ELSE IF current - Get(previous) > Dec(0, 5) THEN sRising
    ELSE IF Get(previous) - current > Dec(0, 5) THEN sFalling
    ELSE sStable

TrendExample(previous, current, trend) ==
    tInput = Some([previous |-> Some(previous), current |-> current]) => tTrend = Some(trend)

\* C11: the trend given for a reading is stable without a previous height,
\* rising when the reading is more than 0.5 above the previous height, falling
\* when it is more than 0.5 below, stable otherwise; after 100 the readings
\* 100.4 and 100.5 are stable, 100.6 is rising, 99.4 is falling and 99.5 is stable.
C11_TrendDeadband ==
    tTrend # None =>
        /\ Get(tTrend) = RefTrend(Get(tInput).previous, Get(tInput).current)
        /\ TrendExample(Dec(100, 0), Dec(100, 4), sStable)
        /\ TrendExample(Dec(100, 0), Dec(100, 5), sStable)
        /\ TrendExample(Dec(100, 0), Dec(100, 6), sRising)
        /\ TrendExample(Dec(100, 0), Dec(99, 4), sFalling)
        /\ TrendExample(Dec(100, 0), Dec(99, 5), sStable)

\* a reading exactly 0.5 above the previous height has been classified
C11_Witness ==
    /\ tInput = Some([previous |-> Some(Dec(100, 0)), current |-> Dec(100, 5)])
    /\ tTrend = Some(sStable)

\* ---------------------------------------------------------------- C9
\* The reference formula of the claim, stated by counting the thresholds an
\* input reaches; a trend is rising or falling whatever its letter case.
RefScore(inputs) ==
    Cardinality({th \in {Dec(20, 0), Dec(50, 0), Dec(80, 0)} : inputs.distance_cm <= th})
    + Cardinality({th \in {Dec(5, 0), Dec(15, 0), Dec(30, 0)} : inputs.rainfall_mm >= th})
    + (IF inputs.humidity >= Dec(90, 0) THEN 1 ELSE 0)
    + (IF toLowerCase(inputs.trend) = sRising THEN 2
       ELSE IF toLowerCase(inputs.trend) = sFalling THEN -1 ELSE 0)
    + (IF inputs.temp <= Dec(2, 0) THEN 1 ELSE 0)

RefLevel(inputs) ==
    IF RefScore(inputs) >= 6 THEN sHigh
    ELSE IF RefScore(inputs) >= 3 THEN sMedium
    ELSE sLow

ScenarioA ==
    [distance_cm |-> Dec(15, 0), rainfall_mm |-> Dec(35, 0), humidity |-> Dec(95, 0),
     temp |-> Dec(1, 0), trend |-> sRising]

ScenarioB ==
    [distance_cm |-> Dec(90, 0), rainfall_mm |-> 0, humidity |-> Dec(40, 0),
     temp |-> Dec(20, 0), trend |-> sFalling]

\* C9: the riskLevel of either heuristic equals the reference formula's level for
\* every input; scenario A scores 10 and is High, scenario B scores -1 and is Low.
C9_HeuristicMatchesReference ==
    /\ hLocal # None =>
        /\ Get(hLocal).riskLevel = RefLevel(Get(hInput))
        /\ localScore(Get(hInput)) = RefScore(Get(hInput))
        /\ Get(hInput) = ScenarioA =>
            localScore(ScenarioA) = 10 /\ Get(hLocal).riskLevel = sHigh
        /\ Get(hInput) = ScenarioB =>
            localScore(ScenarioB) = -1 /\ Get(hLocal).riskLevel = sLow
    /\ hServer # None =>
        /\ Get(hServer).riskLevel = RefLevel(Get(hInput))
        /\ heuristicScore(Get(hInput)) = RefScore(Get(hInput))
        /\ Get(hInput) = ScenarioA =>
            heuristicScore(ScenarioA) = 10 /\ Get(hServer).riskLevel = sHigh
        /\ Get(hInput) = ScenarioB =>
            heuristicScore(ScenarioB) = -1 /\ Get(hServer).riskLevel = sLow

\* both heuristics have scored an input whose score is exactly 6
C9_Witness ==
    /\ hLocal # None /\ hServer # None
    /\ RefScore(Get(hInput)) = 6
    /\ Get(hLocal).riskLevel = sHigh

\* ---------------------------------------------------------------- C10
\* What the distance, and the rainfall, of an input contributes to a score: the
\* score less the score of the same input with the sensor far away, or with no rain.
DistancePart(score(_), inputs) ==
    score(inputs) - score([inputs EXCEPT !.distance_cm = Dec(1000, 0)])

RainfallPart(score(_), inputs) ==
    score(inputs) - score([inputs EXCEPT !.rainfall_mm = 0])

BoundaryContributions(score(_), inputs) ==
    /\ inputs.distance_cm = Dec(20, 0) => DistancePart(score, inputs) = 3
    /\ inputs.distance_cm = Dec(50, 0) => DistancePart(score, inputs) = 2
    /\ inputs.distance_cm = Dec(80, 0) => DistancePart(score, inputs) = 1
    /\ inputs.distance_cm = Dec(81, 0) => DistancePart(score, inputs) = 0
    /\ inputs.rainfall_mm = Dec(5, 0) => RainfallPart(score, inputs) = 1
    /\ inputs.rainfall_mm = Dec(15, 0) => RainfallPart(score, inputs) = 2
    /\ inputs.rainfall_mm = Dec(30, 0) => RainfallPart(score, inputs) = 3

\* C10: the thresholds are inclusive: distance 20, 50, 80, 81 contribute 3, 2, 1, 0
\* and rainfall 5, 15, 30 contribute 1, 2, 3, in both heuristics.
C10_InclusiveThresholds ==
    /\ hLocal # None => BoundaryContributions(localScore, Get(hInput))
    /\ hServer # None => BoundaryContributions(heuristicScore, Get(hInput))

\* both heuristics have scored an input at distance 50 with rainfall 15
C10_Witness ==
    /\ hLocal # None /\ hServer # None
    /\ Get(hInput).distance_cm = Dec(50, 0)
    /\ Get(hInput).rainfall_mm = Dec(15, 0)

\* ---------------------------------------------------------------- C12
\* C12 as stated: the input staying the same, a later invocation of either
\* heuristic returns the result of the earlier one in every field, predictionId
\* included.
C12_AsStated ==
    [][/\ (hLocal # None /\ hLocal' # None) => hLocal' = hLocal
       /\ (hServer # None /\ hServer' # None) => hServer' = hServer]_vars

SameAnswer(earlier, later) ==
    /\ Get(later).riskLevel = Get(earlier).riskLevel
    /\ Get(later).explanation = Get(earlier).explanation

\* C12 amended: the input staying the same, a later invocation of either
\* heuristic returns the riskLevel and the explanation of the earlier one; the
\* predictionId of the local estimate is local- followed by the clock reading
\* of its invocation, and the cloud heuristic returns no predictionId.
C12_SameLevelAndExplanation ==
    [][/\ (hLocal # None /\ hLocal' # None) => SameAnswer(hLocal, hLocal')
       /\ (hServer # None /\ hServer' # None) => hServer' = hServer
       /\ hLocal' # hLocal => Get(hLocal').predictionId = <<"local-", now>>]_vars

\* both heuristics have answered, the local one after the clock moved on
C12_Witness ==
    /\ hLocal # None
    /\ hServer # None
    /\ Get(hLocal).predictionId = <<"local-", 1>>

\* the clause a piece of an explanation states, in either wording
ClauseOf(piece) ==
    CASE piece = "Water level is close to the sensor" -> 1
      [] piece \in {"Recent rainfall is heavy", "Heavy rainfall detected in the last hour"} -> 2
      [] piece \in {"Rising water trend detected", "Recent trend indicates rising water"} -> 3
      [] piece \in {"Humidity remains high",
                    "Humidity is high, supporting persistent moisture"} -> 4
      [] piece \in {"Sensor readings remain within safe ranges",
                    "Sensor readings stay within safe thresholds"} -> 0
      [] OTHER -> -1

\* the clauses the input triggers
TriggeredClauses(inputs) ==
    {k \in 1..4 :
        \/ k = 1 /\ inputs.distance_cm <= Dec(50, 0)
        \/ k = 2 /\ inputs.rainfall_mm >= Dec(15, 0)
        \/ k = 3 /\ toLowerCase(inputs.trend) = sRising
        \/ k = 4 /\ inputs.humidity >= Dec(90, 0)}

\* what follows the level in an explanation, without the closing period
ClausesText(result) ==
    SubSeq(result.explanation, Len(result.riskLevel) + 2, Len(result.explanation) - 1)

WellFormedExplanation(inputs, result) ==
    LET e == result.explanation
        level == result.riskLevel
        body == ClausesText(result)
        clauseAt(i) == ClauseOf(body[2 * i - 1])
        n == (Len(body) + 1) \div 2
    IN  /\ Len(e) >= Len(level) + 3
        /\ SubSeq(e, 1, Len(level)) = level
        /\ e[Len(level) + 1] = " risk -- "
        /\ e[Len(e)] = "."
        /\ Len(body) % 2 = 1
        /\ \A i \in 1..Len(body) : i % 2 = 0 => body[i] = "; "
        /\ \A i \in 1..n : clauseAt(i) >= 0
        /\ \A i \in 1..(n - 1) : clauseAt(i) < clauseAt(i + 1)
        /\ IF TriggeredClauses(inputs) = {}
              THEN n = 1 /\ clauseAt(1) = 0
              ELSE {clauseAt(i) : i \in 1..n} = TriggeredClauses(inputs)

\* C13: a heuristic explanation is the returned level, " risk -- ", the
\* triggered clauses in the order close to the sensor, heavy rainfall, rising
\* trend, high humidity, joined by "; ", and a period; the safe-ranges clause
\* stands alone exactly when no condition holds.
C13_ExplanationTemplate ==
    /\ hLocal # None => WellFormedExplanation(Get(hInput), Get(hLocal))
    /\ hServer # None => WellFormedExplanation(Get(hInput), Get(hServer))

\* example scenario A, answered by both heuristics with all four clauses
C13_Witness ==
    /\ hInput = Some([distance_cm |-> Dec(15, 0), rainfall_mm |-> Dec(35, 0),
                      humidity |-> Dec(95, 0), temp |-> Dec(1, 0), trend |-> sRising])
    /\ hLocal # None
    /\ hServer # None
    /\ Len(ClausesText(Get(hLocal))) = 7
    /\ Len(ClausesText(Get(hServer))) = 7
    /\ Get(hServer).riskLevel = sHigh

\* where a text opens the parenthesis of an alert's level
LevelMarks(text) == {i \in DOMAIN text : text[i] = " ("}
LevelMark(text, k) ==
    CHOOSE i \in LevelMarks(text) : Cardinality({j \in LevelMarks(text) : j < i}) = k - 1

\* at mark p the text names the alert: what opens an entry, its sensor, " (",
\* its level, and what closes the level
ListsAlertAt(text, p, alert, opening, closing) ==
    /\ p - Len(alert.sensor) - 1 >= 1
    /\ text[p - Len(alert.sensor) - 1] \in opening
    /\ SubSeq(text, p - Len(alert.sensor), p - 1) = alert.sensor
    /\ p + Len(alert.level) + 1 <= Len(text)
    /\ SubSeq(text, p + 1, p + Len(alert.level)) = alert.level
    /\ text[p + Len(alert.level) + 1] = closing

ListsFirstAlerts(text, request, opening, closing) ==
    LET listed == IF Len(request.lastAlerts) < 3 THEN Len(request.lastAlerts) ELSE 3
    IN  /\ Cardinality(LevelMarks(text)) = listed
        /\ \A k \in 1..listed :
              ListsAlertAt(text, LevelMark(text, k), request.lastAlerts[k], opening, closing)

BeginsWithHeadline(text, headline) ==
    /\ Len(text) >= 4
    /\ SubSeq(text, 1, 4) = <<"**", headline, "**", "\n">>

\* C14: whatever the length of lastAlerts, both fallback summaries begin with
\* the line of the bold headline of currentLevel and list the first
\* min(3, length) alerts of the request in order, and no other alert.
C14_FallbackSummaryShape ==
    /\ mLocal # None =>
          /\ BeginsWithHeadline(Get(mLocal), levelDescriptions(Get(mRequest).currentLevel))
          /\ ListsFirstAlerts(Get(mLocal), Get(mRequest), {"  - "}, ") · ")
    /\ mServer # None =>
          /\ BeginsWithHeadline(Get(mServer), fallbackHeadline(Get(mRequest).currentLevel))
          /\ ListsFirstAlerts(Get(mServer), Get(mRequest), {"- Recent alerts: ", ", "}, ")")

\* a request with four alerts, summarised on both sides with three of them
C14_Witness ==
    /\ mRequest # None
    /\ Len(Get(mRequest).lastAlerts) = 4
    /\ Get(mRequest).lastAlerts[4] # Get(mRequest).lastAlerts[3]
    /\ mLocal # None
    /\ mServer # None
    /\ Cardinality(LevelMarks(Get(mLocal))) = 3
    /\ Cardinality(LevelMarks(Get(mServer))) = 3

AlertIds == {doc.id : doc \in AlertDocs}

\* C15: an alert id is notified at most once, only in the snapshot that
\* first holds it and only with the permission granted then; an id first
\* delivered without the permission is seen from then on and never notified.
C15_NotifiedOnceWhenNew ==
    [][\A id \in AlertIds :
          /\ Count(notifications', id) <= 1
          /\ Count(notifications', id) > Count(notifications, id) =>
                /\ id \notin delivered
                /\ id \in {alerts'[i].id : i \in DOMAIN alerts'}
                /\ notificationPermission = "granted"
          /\ id \in delivered' => id \in seenAlertsRef'
          /\ (id \in delivered /\ Count(notifications, id) = 0) =>
                Count(notifications', id) = 0]_vars

\* a2 was first delivered before the permission was granted and a1 after it;
\* the snapshot on screen holds both, and only a1 has been notified
C15_Witness ==
    /\ notificationPermission = "granted"
    /\ {alerts[i].id : i \in DOMAIN alerts} = {"a1", "a2"}
    /\ Count(notifications, "a1") = 1
    /\ Count(notifications, "a2") = 0
    /\ "a2" \in seenAlertsRef

\* C16: while a scoring or summary call for a key is in flight the key is
\* in the processed set, and no key has had two scoring calls, however the
\* snapshots interleave with the pending calls.
C16_MarkedBeforeCalling ==
    /\ \A c \in riskCalls : c.key \in processedFloodAlerts
    /\ \A c \in summaryCalls : c.key \in processedFloodAlerts
    /\ \A key \in DOMAIN scoreCalls : scoreCalls[key] <= 1

\* the effect ran again for a key whose scoring call is still in flight, and skipped it
C16_Witness ==
    \E c \in riskCalls :
        /\ lastRun = Ran(Some(c.key), "skipped")
        /\ Count(scoreCalls, c.key) = 1
        /\ \E d \in summaryCalls : d.key = c.key

\* the keys of the candidates the effect selects from a batch
SelectedKeys(batch) ==
    {alertKey(latestFloodCandidate(batch)[i], now) : i \in DOMAIN latestFloodCandidate(batch)}

\* a step in which no promise settles: a run of the effect
NothingSettles == riskCalls \subseteq riskCalls' /\ summaryCalls \subseteq summaryCalls'

\* C17: a run of the effect whose selected candidate has its key in the
\* processed set already makes no scoring call and no summary call and leaves
\* the last water height, the processed set, latestPrediction, riskLoading,
\* riskError and the summaries as they were.
C17_SkipChangesNothing ==
    [][(/\ NothingSettles
        /\ SelectedKeys(alerts') # {}
        /\ SelectedKeys(alerts') \subseteq processedFloodAlerts)
          => UNCHANGED <<riskCalls, summaryCalls, scoreCalls, summaryCount, trendUpdates,
                         callSeq, lastWaterHeightRef, processedFloodAlerts, latestPrediction,
                         riskLoading, riskError, summaries>>]_vars

\* a1 selected again after a2 was scored: skipped, the height of a2 still the last one
C17_Witness ==
    /\ lastRun = Ran(Some(alertKey(DocFlood, now)), "skipped")
    /\ lastWaterHeightRef = Some(Dec(100, 6))
    /\ {alertKey(DocFlood, now), alertKey(DocGas, now)} \subseteq processedFloodAlerts
    /\ latestPrediction # None

\* C18 as stated: every processed key has had the last water height set for
\* it exactly once.
C18_AsStated ==
    \A key \in processedFloodAlerts : Count(trendUpdates, key) = 1

\* the step marks the key of doc processed
NewlyProcessed(doc) ==
    /\ alertKey(doc, now) \notin processedFloodAlerts
    /\ alertKey(doc, now) \in processedFloodAlerts'

\* C18 amended: the last water height is set to the alert's height exactly
\* once for every processed key whose record has a resolvable height and
\* distance, in the step that marks it and whatever the scoring outcome, and
\* never again for that key; it is not set for a key marked processed as
\* malformed, nor at any other time.
C18_TrendSetOncePerDispatchedKey ==
    /\ [](\A doc \in AlertDocs :
            Count(trendUpdates, alertKey(doc, now)) =
                IF alertKey(doc, now) \in processedFloodAlerts /\ Resolvable(doc) THEN 1 ELSE 0)
    /\ [][/\ \A doc \in AlertDocs :
               (NewlyProcessed(doc) /\ Resolvable(doc)) =>
                    lastWaterHeightRef' = pickNumericField(doc, heightKeys)
          /\ lastWaterHeightRef' # lastWaterHeightRef =>
               \E doc \in AlertDocs : NewlyProcessed(doc) /\ Resolvable(doc)]_vars

\* the flood record was scored and its call rejected, the malformed record was
\* met after it: the last height is still the flood record's
C18_Witness ==
    /\ {alertKey(DocFlood, now), alertKey(DocMotion, now)} \subseteq processedFloodAlerts
    /\ Count(trendUpdates, alertKey(DocFlood, now)) = 1
    /\ Count(trendUpdates, alertKey(DocMotion, now)) = 0
    /\ lastWaterHeightRef = Some(Dec(100, 0))
    /\ riskError = Some(sUnavailable)
    /\ lastRun = Ran(Some(alertKey(DocMotion, now)), "malformed")

\* the payload of call c holds the gap of the record the call was made for
MadeForItsAlert(c) ==
    \E doc \in AlertDocs :
        /\ alertKey(doc, now) = c.key
        /\ Resolvable(doc)
        /\ Some(c.payload.distance_cm) = pickNumericField(doc, distanceKeys)

\* C19: every scoring call in flight carries the input of its own alert, and
\* the step in which a call settles publishes as latestPrediction the
\* callable's answer for that input or, on rejection, the local estimate for
\* it, whether or not a newer call has been made or has published since.
C19_StaleCallsPublish ==
    /\ [](\A c \in riskCalls : MadeForItsAlert(c))
    /\ [][\A c \in riskCalls \ riskCalls' :
            /\ latestPrediction' # None
            /\ \/ \E outcome \in ServiceOutcomes :
                    /\ Get(latestPrediction') = predictFloodRiskFn(c.payload, outcome, c.id).response
                    /\ riskError' = None
               \/ /\ Get(latestPrediction') = computeLocalFloodRisk(c.payload, now)
                  /\ riskError' = Some(sUnavailable)]_vars

\* two calls were made; the second has published, and the first resolved after
\* it: the answer to the first call is the one on screen
C19_Witness ==
    /\ callSeq = 2
    /\ riskCalls = {}
    /\ latestPrediction # None
    /\ Get(latestPrediction).predictionId = <<"doc-", 1>>
    /\ riskError = None

TaggedFlood(doc) ==
    doc.sensor # None /\ includes(toLowerCase(Get(doc.sensor)), sFlood)

NumericValueAndDistance(doc) ==
    /\ doc.num["value"].type \notin {"undefined", "string"}
    /\ doc.num["distance"].type \notin {"undefined", "string"}

FirstIndex(matching) == CHOOSE i \in matching : \A j \in matching : i <= j

\* the record the claim selects from a batch that is not empty
RefCandidate(batch) ==
    IF \E i \in DOMAIN batch : TaggedFlood(batch[i])
    THEN batch[FirstIndex({i \in DOMAIN batch : TaggedFlood(batch[i])})]
    ELSE IF \E i \in DOMAIN batch : NumericValueAndDistance(batch[i])
    THEN batch[FirstIndex({i \in DOMAIN batch : NumericValueAndDistance(batch[i])})]
    ELSE batch[1]

\* C20: the effect takes as its candidate the first record of the batch whose
\* sensor tag contains flood in any case, else the first record with a numeric
\* value and a numeric distance, else the first record; on an empty batch it
\* has no candidate and changes nothing.
C20_SelectionPrecedence ==
    [][IF alerts' = <<>>
       THEN /\ lastRun' = Ran(None, "empty")
            /\ UNCHANGED <<riskCalls, summaryCalls, scoreCalls, summaryCount, trendUpdates,
                           callSeq, lastWaterHeightRef, processedFloodAlerts,
                           latestPrediction, riskLoading, riskError, summaries>>
       ELSE /\ lastRun' # None
            /\ Get(lastRun').key = Some(alertKey(RefCandidate(alerts'), now))
            /\ alertKey(RefCandidate(alerts'), now) \in processedFloodAlerts']_vars

\* the older flood record was chosen over the gas record ahead of it, after
\* the gas record had been chosen over the thermometer ahead of it
C20_Witness ==
    /\ alerts = <<DocGas, DocFloodOld>>
    /\ lastRun = Ran(Some(alertKey(DocFloodOld, now)), "dispatched")
    /\ alertKey(DocGas, now) \in processedFloodAlerts
    /\ alertKey(DocTemp, now) \notin processedFloodAlerts
    /\ "a4" \in delivered

\* the scoring calls made for a record, under every key it has had
RECURSIVE DispatchesUpTo(_, _)
DispatchesUpTo(doc, t) ==
    IF t < 0 THEN 0
    ELSE (IF t > 0 /\ alertKey(doc, t) = alertKey(doc, 0) THEN 0
          ELSE Count(scoreCalls, alertKey(doc, t)))
         + DispatchesUpTo(doc, t - 1)

\* C21 as stated: a record has the same key whenever it is the candidate,
\* a record without identifier and timestamp included, and is dispatched at
\* most once.
C21_AsStated ==
    \A doc \in KeyDocs : DispatchesUpTo(doc, MaxNow) <= 1

LocalEntries(visible) == {i \in DOMAIN visible : isLocalEntry(visible[i])}
RemoteEntries(visible) == DOMAIN visible \ LocalEntries(visible)

\* C22 as stated: no local entry is on screen together with a remote entry of
\* the same identifier or the same summary text.
C22_AsStated ==
    \A i \in LocalEntries(summaries), j \in RemoteEntries(summaries) :
        /\ summaries[i].id # summaries[j].id
        /\ summaries[i].summary # summaries[j].summary

\* the entries of `later` that `earlier` does not hold
AddedEntries(earlier, later) ==
    {later[i] : i \in DOMAIN later} \ {earlier[i] : i \in DOMAIN earlier}

HasText(visible, text) == \E i \in DOMAIN visible : visible[i].summary = text

\* C23: a local entry comes into the collection only in a step in which a
\* summary call leaves flight, with the local text for that call's request
\* and with no entry of that text there before; a call whose local text is
\* already on screen leaves the collection as it is; and no two local entries
\* ever have the same text.
C23_LocalSummariesDistinct ==
    /\ [](\A i, j \in LocalEntries(summaries) :
            i # j => summaries[i].summary # summaries[j].summary)
    /\ [][/\ \A e \in AddedEntries(summaries, summaries') :
               isLocalEntry(e) =>
                    /\ ~HasText(summaries, e.summary)
                    /\ \E c \in summaryCalls \ summaryCalls' :
                            e.summary = buildLocalSummary(c.request)
          /\ \A c \in summaryCalls \ summaryCalls' :
               HasText(summaries, buildLocalSummary(c.request)) => summaries' = summaries]_vars

\* the record without a stable key was dispatched twice and both summary calls
\* failed: the two requests give the same local text, which is on screen once,
\* ahead of a remote document
C23_Witness ==
    /\ callSeq = 2
    /\ summaryCalls = {}
    /\ Cardinality(DOMAIN summaryCount) = 2
    /\ Cardinality(LocalEntries(summaries)) = 1
    /\ RemoteEntries(summaries) # {}
    /\ alerts = <<DocAnon>>

\* C24 as stated: the visible collection never holds more than 20 entries.
C24_AsStated == Len(summaries) <= SummaryLimit

\* a response body inside a fence, with the language tag or without it
Fenced(tag, body) == sFence \o tag \o <<"\n">> \o body \o <<"\n">> \o sFence

ServiceSaid(text) == [kind |-> "ok", text |-> Some(text)]

\* C25 as stated: a valid risk object in a fence, tagged json or not, gets the
\* answer the same object gets without a fence.
C25_AsStated ==
    \A body \in GeminiBodies, tag \in {<<"j", "s", "o", "n">>, <<>>} :
        (/\ sResult # None
         /\ Get(sResult).status = "ok"
         /\ sOutcome = Some(ServiceSaid(Fenced(tag, body)))
         /\ callGemini(Get(sInput), ServiceSaid(body)).result # None)
            => Get(sResult).response =
                    Some(predictFloodRiskFn(Get(sInput), ServiceSaid(body),
                                            Len(riskPredictions)).response)

\* ---------------------------------------------------------------- C26
\* C26 as stated: while a scoring call of the dispatch loop is in flight, the
\* loading flag is up.
C26_AsStated == riskCalls # {} => riskLoading

\* ---------------------------------------------------------------- C27
\* C27: whenever the advisory is shown, the prediction shown is a local
\* estimate (its predictionId starts with local-); a prediction the callable
\* returned is never shown together with the advisory.
C27_AdvisoryOnlyWithLocalEstimate ==
    riskError # None =>
        /\ latestPrediction # None
        /\ Get(latestPrediction).predictionId[1] = "local-"

\* two calls overlapped: one was rejected and shows its local estimate with the
\* advisory while the other is still in flight
C27_Witness ==
    /\ callSeq = 2
    /\ Cardinality(riskCalls) = 1
    /\ riskError = Some(sUnavailable)
    /\ latestPrediction # None
    /\ Get(latestPrediction).predictionId[1] = "local-"

\* ---------------------------------------------------------------- C28
\* the clauses of an explanation, in its order, whatever their wording
ClauseKinds(result) ==
    [i \in 1..((Len(ClausesText(result)) + 1) \div 2) |->
        ClauseOf(ClausesText(result)[2 * i - 1])]

\* C28: for the same input the dashboard's heuristic and the cloud heuristic
\* return the same riskLevel and state the same clauses in the same order.
C28_SameLevelSameClauses ==
    (hLocal # None /\ hServer # None) =>
        /\ Get(hLocal).riskLevel = Get(hServer).riskLevel
        /\ ClauseKinds(Get(hLocal)) = ClauseKinds(Get(hServer))

\* both heuristics answered an input that triggers the sensor and humidity
\* clauses, in different words
C28_Witness ==
    /\ hLocal # None
    /\ hServer # None
    /\ ClauseKinds(Get(hServer)) = <<1, 4>>
    /\ Get(hLocal).explanation # Get(hServer).explanation
    /\ Get(hServer).riskLevel = sMedium

\* ---------------------------------------------------------------- C29
\* C29 as stated: a step that changes the weather snapshot and not the alert
\* batch makes no scoring call and no summary call and leaves the trend state
\* and the processed set as they were.
C29_AsStated ==
    [][(weatherData' # weatherData /\ alerts' = alerts) =>
          /\ riskCalls' = riskCalls
          /\ summaryCalls' = summaryCalls
          /\ scoreCalls' = scoreCalls
          /\ summaryCount' = summaryCount
          /\ lastWaterHeightRef' = lastWaterHeightRef
          /\ processedFloodAlerts' = processedFloodAlerts]_vars

\* ---------------------------------------------------------------- C30
\* the input with low humidity and a mild temperature in place of its own
MildAndDry(inputs) == [inputs EXCEPT !.humidity = Dec(40, 0), !.temp = Dec(20, 0)]

\* C30 as stated: a call dispatched without a weather snapshot carries 0 for
\* rainfall, humidity and temperature, and both heuristics give it the level
\* they give the same distance and trend with no rainfall, low humidity and a
\* mild temperature.
C30_AsStated ==
    weatherData = None =>
        \A c \in riskCalls :
            /\ c.payload.rainfall_mm = 0
            /\ c.payload.humidity = 0
            /\ c.payload.temp = 0
            /\ heuristicFloodRisk(c.payload).riskLevel
                 = heuristicFloodRisk(MildAndDry(c.payload)).riskLevel
            /\ computeLocalFloodRisk(c.payload, now).riskLevel
                 = computeLocalFloodRisk(MildAndDry(c.payload), now).riskLevel

====
